---------------------------- MODULE Spec2Model ----------------------------
(***************************************************************************)
(* Anti-collision kernel of the fiber-positioner petal                     *)
(* (src/petal/poscollider.pyx): the sweep builder PosSweep (fill_exact,    *)
(* quantize, was_moving), the spatial classifiers of PosCollider and the   *)
(* spacetime driver PosCollider.spacetime_collision.                       *)
(*                                                                         *)
(* Conventions.                                                            *)
(*  - Python lists are sequences; the code's 0-based index i is written    *)
(*    At(seq, i).                                                          *)
(*  - Times are integers.  Under arithmetic "real" they count ticks and    *)
(*    +, -, / are those of the real numbers (int() truncates the exact     *)
(*    quotient).  Under arithmetic "float" they count units of 2^-FracBits *)
(*    seconds and every operation rounds its result to MantissaBits        *)
(*    significant bits, round-to-nearest-even, as IEEE-754 binary floating *)
(*    point does (a double has 53 bits; the model keeps the mantissa short *)
(*    so that the integers stay small).                                    *)
(*  - Angles are integers in units of 1/PosUnit degree, PosUnit being a    *)
(*    common multiple of every step count, so that distance/n_steps is     *)
(*    exact.  Angle arithmetic is that of the real numbers in both modes.  *)
(*  - math.inf is math_inf, None is None (integers, so that they compare  *)
(*    with times and indexes).                                             *)
(***************************************************************************)
EXTENDS Integers, Sequences, FiniteSets, TLC

VARIABLES
    \* ---- one PosSweep built as test2() builds it
    arith,          \* "real" | "float": the arithmetic of the time values
    table,          \* the move table (dict of arrays) handed to fill_exact
    init_poslocTP,  \* starting (theta, phi)
    start_time,     \* fill_exact's start_time
    timestep,       \* quantize's timestep
    s,              \* the sweep after fill_exact (exact trace)
    q,              \* the copy of s after quantize (discrete trace)
    phase,          \* "new" -> "exact" -> "quantized"; "raised", "extended"
    ext,            \* the last call of extend: its arguments, its receiver
                    \* before the call and after it
    \* ---- the PosCollider object and one call of a spatial classifier
    collider,       \* self: envelope angles, retracted set, fixed cases, geometry
    call,           \* "between" | "fixed" | "none": the classifier called
    poslocTP_A,     \* (theta, phi) of posid_A
    poslocTP_B,     \* (theta, phi) of posid_B
    use_phi_arc,    \* spatial_collision_with_fixed's use_phi_arc
    verdict,        \* what the call returned and the polygon tests it made
    \* ---- one call of PosCollider.spacetime_collision
    pc,             \* "start" -> "loop" -> "done"
    pospos,         \* posid_B is not None
    init_poslocTPs, \* [init_poslocTP_A, init_poslocTP_B]
    tables,         \* [tableA, tableB]
    skip,           \* the skip argument
    sweeps,         \* [PosSweep(posid_A), PosSweep(posid_B)]
    steps_remaining,
    step,
    checks,         \* history: the step lists at which a classifier was called
    passes,         \* history: the passes of the while loop made so far
    \* ---- PosPoly objects
    polys,          \* the polygons constructed so far, in order of construction
    poly_call,      \* the last PosPoly call: its arguments and what it returned
    \* ---- the registry of a PosCollider and the positioner state it reads
    posmodel_state, \* posid -> the calibration values of posmodel.state
    registry,       \* self: posids, neighbours, calibration and keepout maps
    registry_call   \* the last registry call: its arguments and what it did

sweepVars == <<arith, table, init_poslocTP, start_time, timestep, s, q, phase>>
classifyVars == <<call, poslocTP_A, poslocTP_B, use_phi_arc, verdict>>

driverVars == <<pc, pospos, init_poslocTPs, tables, skip, sweeps, steps_remaining, step,
                checks, passes>>
extendVars == <<ext>>
polyVars == <<polys, poly_call>>
registryVars == <<posmodel_state, registry, registry_call>>

vars == <<sweepVars, extendVars, collider, classifyVars, driverVars, polyVars,
         registryVars>>

-----------------------------------------------------------------------------
(* Bounds of the model *)

\* longest move table of the sweep specifications
MaxRows == 3

\* longest move table of the floating-point sweep specification
MaxFloatRows == 2

\* longest move table of a spacetime_collision call
MaxDriverRows == 2

\* longest move table of a sweep that is extended, and most calls of extend
MaxExtendRows == 2
MaxExtends == 2

\* longest move table handed to fill_exact with lists of unequal length
MaxRaggedRows == 2

\* significant bits of a floating-point value in the model (53 in a double;
\* 9 = 53 mod 4, so the decimal tenths round in the same direction)
MantissaBits == 9
MaxPolys == 2

\* most positioners handed to add_positioners, and most registry calls of a run
MaxPositioners == 8
MaxRegistryCalls == 2

-----------------------------------------------------------------------------
(* Helpers *)

At(seq, i) == seq[i + 1]
Last(seq) == seq[Len(seq)]

Abs(x) == IF x < 0 THEN -x ELSE x

MaxOf(S) == CHOOSE x \in S : \A y \in S : y <= x
MinOf(S) == CHOOSE x \in S : \A y \in S : x <= y

RECURSIVE Gcd(_, _)
Gcd(a, b) == IF b = 0 THEN a ELSE Gcd(b, a % b)

RECURSIVE LcmUpTo(_)
LcmUpTo(n) == IF n <= 1 THEN 1 ELSE LET l == LcmUpTo(n - 1) IN (l * n) \div Gcd(l, n)

RECURSIVE Pow2(_)
Pow2(k) == IF k <= 0 THEN 1 ELSE 2 * Pow2(k - 1)

RECURSIVE BitLen(_)
BitLen(v) == IF v <= 0 THEN 0 ELSE 1 + BitLen(v \div 2)

RECURSIVE SeqSum(_)
SeqSum(seq) == IF seq = <<>> THEN 0 ELSE seq[1] + SeqSum(Tail(seq))

\* all sequences over S of length 0..n
SeqsUpTo(S, n) == UNION {[1..k -> S] : k \in 0..n}

math_inf == 1000000
None == -1

-----------------------------------------------------------------------------
(* Arithmetic of the time values *)

\* binary digits after the point on the model's grid: the timestep 0.1 then
\* has exactly MantissaBits significant bits
FracBits == MantissaBits + 3
\* extra binary digits carried by a quotient before it is rounded
QuotBits == MantissaBits + 3

\* num/den >= 0 rounded to MantissaBits significant bits, nearest, ties to even
FlRound(num, den) ==
    LET fl  == num \div den
        k   == BitLen(fl) - MantissaBits
        u   == IF k <= 0 THEN 1 ELSE Pow2(k)
        m   == fl \div u
        rem == num - m * u * den
    IN  IF 2 * rem > u * den \/ (2 * rem = u * den /\ m % 2 = 1)
        THEN (m + 1) * u ELSE m * u

FlR(v) == IF v < 0 THEN -FlRound(-v, 1) ELSE FlRound(v, 1)

\* the literal k/10 as the program reads it
Tenths(ar, k) == IF ar = "float" THEN FlRound(k * Pow2(FracBits), 10) ELSE k

Add(ar, a, b) == IF ar = "float" THEN FlR(a + b) ELSE a + b
Sub(ar, a, b) == IF ar = "float" THEN FlR(a - b) ELSE a - b
\* k * b, k a whole number
Mul(ar, k, b) == IF ar = "float" THEN FlR(k * b) ELSE k * b

\* int(a / b): the quotient, rounded under "float", truncated toward zero
IntQuot(ar, a, b) ==
    LET sgn == IF (a < 0) = (b < 0) THEN 1 ELSE -1
        mag == IF ar = "float"
               THEN FlRound(Abs(a) * Pow2(QuotBits), Abs(b)) \div Pow2(QuotBits)
               ELSE Abs(a) \div Abs(b)
    IN  sgn * mag

-----------------------------------------------------------------------------
(* class PosSweep *)

\* pc.case, and the ids of the two fixed envelopes
case_I == "I"
case_II == "II"
case_III == "III"
case_IV == "IV"
case_PTL == "PTL"
case_GFA == "GFA"

\* PosSweep.__init__
PosSweep(posid) ==
    [posid              |-> posid,
     time               |-> <<>>,
     tp                 |-> <<>>,
     was_moving_cached  |-> <<>>,
     collision_case     |-> case_I,
     collision_time     |-> math_inf,
     collision_idx      |-> None,
     collision_neighbor |-> ""]

\* a faulty was_moving: "step < 0" for "step <= 0", so that step 0 is compared
\* with tp[-1], the last pose
was_moving_wrapped(tp, stp) ==
    IF stp < 0 \/ stp >= Len(tp) THEN FALSE
    ELSE LET prev == IF stp = 0 THEN Last(tp) ELSE At(tp, stp - 1)
         IN  ~(At(tp, stp)[1] = prev[1] /\ At(tp, stp)[2] = prev[2])

\* PosSweep.was_moving, on the tp list
was_moving(tp, stp) ==
    IF stp <= 0 \/ stp >= Len(tp) THEN FALSE
    ELSE IF At(tp, stp)[1] = At(tp, stp - 1)[1] /\ At(tp, stp)[2] = At(tp, stp - 1)[2]
         THEN FALSE
         ELSE TRUE

\* [self.was_moving(step) for step in range(len(self.time))]
was_moving_list(time, tp) == [k \in 1..Len(time) |-> was_moving(tp, k - 1)]

\* a faulty row of fill_exact: the move sample is appended whatever move_time is
fill_exact_row_always_moves(ar, tbl, i, time, tp) ==
    LET time1 == IF At(tbl.prepause, i) # 0
                 THEN Append(time, Add(ar, At(tbl.prepause, i), Last(time))) ELSE time
        tp1   == IF At(tbl.prepause, i) # 0 THEN Append(tp, Last(tp)) ELSE tp
        time2 == Append(time1, Add(ar, At(tbl.move_time, i), Last(time1)))
        tp2   == Append(tp1, <<At(tbl.dT, i) + Last(tp1)[1], At(tbl.dP, i) + Last(tp1)[2]>>)
        time3 == IF At(tbl.postpause, i) # 0
                 THEN Append(time2, Add(ar, At(tbl.postpause, i), Last(time2))) ELSE time2
        tp3   == IF At(tbl.postpause, i) # 0 THEN Append(tp2, Last(tp2)) ELSE tp2
    IN  [time |-> time3, tp |-> tp3]

\* one row of fill_exact's loop: the (time, tp) lists after row i
fill_exact_row(ar, tbl, i, time, tp) ==
    LET time1 == IF At(tbl.prepause, i) # 0
                 THEN Append(time, Add(ar, At(tbl.prepause, i), Last(time))) ELSE time
        tp1   == IF At(tbl.prepause, i) # 0 THEN Append(tp, Last(tp)) ELSE tp
        time2 == IF At(tbl.move_time, i) # 0
                 THEN Append(time1, Add(ar, At(tbl.move_time, i), Last(time1))) ELSE time1
        tp2   == IF At(tbl.move_time, i) # 0
                 THEN Append(tp1, <<At(tbl.dT, i) + Last(tp1)[1], At(tbl.dP, i) + Last(tp1)[2]>>)
                 ELSE tp1
        time3 == IF At(tbl.postpause, i) # 0
                 THEN Append(time2, Add(ar, At(tbl.postpause, i), Last(time2))) ELSE time2
        tp3   == IF At(tbl.postpause, i) # 0 THEN Append(tp2, Last(tp2)) ELSE tp2
    IN  [time |-> time3, tp |-> tp3]

RECURSIVE fill_exact_rows(_, _, _, _, _)
fill_exact_rows(ar, tbl, i, time, tp) ==
    IF i >= tbl.nrows THEN [time |-> time, tp |-> tp]
    ELSE LET r == fill_exact_row(ar, tbl, i, time, tp)
         IN  fill_exact_rows(ar, tbl, i + 1, r.time, r.tp)

\* whether the loop of fill_exact indexes a list of the table past its end
\* (IndexError): prepause[i], move_time[i] and postpause[i] are read on every
\* row, dT[i] and dP[i] only when move_time[i] is not 0
fill_exact_raises(tbl) ==
    \E i \in 0..(tbl.nrows - 1) :
        \/ i >= Len(tbl.prepause)
        \/ i >= Len(tbl.move_time)
        \/ (At(tbl.move_time, i) # 0 /\ (i >= Len(tbl.dT) \/ i >= Len(tbl.dP)))
        \/ i >= Len(tbl.postpause)

\* PosSweep.fill_exact
fill_exact(ar, self, init, tbl, start) ==
    LET r == fill_exact_rows(ar, tbl, 0, <<start>>, <<init>>)
    IN  [self EXCEPT !.time = r.time,
                     !.tp = r.tp,
                     !.was_moving_cached = was_moving_list(r.time, r.tp)]

\* a faulty inner loop of quantize: the first sample of a segment repeats the
\* time of the sample before it
RECURSIVE quantize_steps_stalled(_, _, _, _, _, _)
quantize_steps_stalled(ar, n, dt, distance_steps, discrete_time, discrete_position) ==
    IF n <= 0 THEN [time |-> discrete_time, tp |-> discrete_position]
    ELSE quantize_steps_stalled(ar, n - 1, dt, distance_steps,
             Append(discrete_time,
                    IF n = 1 THEN Last(discrete_time) ELSE Add(ar, Last(discrete_time), dt)),
             Append(discrete_position,
                    <<Last(discrete_position)[1] + distance_steps[1],
                      Last(discrete_position)[2] + distance_steps[2]>>))

\* the inner loop of quantize: n more samples, timestep apart
RECURSIVE quantize_steps(_, _, _, _, _, _)
quantize_steps(ar, n, dt, distance_steps, discrete_time, discrete_position) ==
    IF n <= 0 THEN [time |-> discrete_time, tp |-> discrete_position]
    ELSE quantize_steps(ar, n - 1, dt, distance_steps,
             Append(discrete_time, Add(ar, Last(discrete_time), dt)),
             Append(discrete_position,
                    <<Last(discrete_position)[1] + distance_steps[1],
                      Last(discrete_position)[2] + distance_steps[2]>>))

\* n_steps of quantize for the exact sample i
n_steps_of(ar, time, tp, i, dt, discrete_time) ==
    LET time_diff == Sub(ar, At(time, i), Last(discrete_time))
        n0        == IntQuot(ar, time_diff, dt)
        moved     == At(tp, i)[1] # At(tp, i - 1)[1] \/ At(tp, i)[2] # At(tp, i - 1)[2]
    IN  IF n0 = 0 /\ moved THEN 1 ELSE n0

\* the outer loop of quantize, from exact sample i on
RECURSIVE quantize_from(_, _, _, _, _, _, _)
quantize_from(ar, time, tp, i, dt, discrete_time, discrete_position) ==
    IF i >= Len(time) THEN [time |-> discrete_time, tp |-> discrete_position]
    ELSE LET n_steps == n_steps_of(ar, time, tp, i, dt, discrete_time)
             diffs   == <<At(tp, i)[1] - At(tp, i - 1)[1], At(tp, i)[2] - At(tp, i - 1)[2]>>
             r == IF n_steps > 0
                  THEN quantize_steps(ar, n_steps, dt,
                           <<diffs[1] \div n_steps, diffs[2] \div n_steps>>,
                           discrete_time, discrete_position)
                  ELSE [time |-> discrete_time, tp |-> discrete_position]
         IN  quantize_from(ar, time, tp, i + 1, dt, r.time, r.tp)

\* PosSweep.quantize
quantize(ar, self, dt) ==
    LET r == quantize_from(ar, self.time, self.tp, 1, dt, <<self.time[1]>>, <<self.tp[1]>>)
    IN  [self EXCEPT !.time = r.time,
                     !.tp = r.tp,
                     !.was_moving_cached = was_moving_list(r.time, r.tp)]

\* a faulty extend: the cache of was_moving is left as it was
extend_uncached(ar, self, dt, max_time) ==
    LET starttime_extension == Add(ar, Last(self.time), dt)
        n_steps == IntQuot(ar, Add(ar, max_time, dt), dt)
        n       == IF n_steps > 0 THEN n_steps ELSE 0
    IN  [self EXCEPT
            !.time = self.time \o [k \in 1..n |->
                                      Add(ar, starttime_extension, Mul(ar, k - 1, dt))],
            !.tp = self.tp \o [k \in 1..n |-> Last(self.tp)]]

\* PosSweep.extend
extend(ar, self, dt, max_time) ==
    LET starttime_extension == Add(ar, Last(self.time), dt)
        n_steps == IntQuot(ar, Add(ar, max_time, dt), dt)
        \* range(n_steps) is empty for n_steps <= 0
        n       == IF n_steps > 0 THEN n_steps ELSE 0
        time    == self.time \o [k \in 1..n |->
                                     Add(ar, starttime_extension, Mul(ar, k - 1, dt))]
        tp      == self.tp \o [k \in 1..n |-> Last(self.tp)]
        cached  == Len(self.was_moving_cached)
    IN  [self EXCEPT
            !.time = time,
            !.tp = tp,
            !.was_moving_cached =
                self.was_moving_cached
                \o [k \in 1..(Len(time) - cached) |-> was_moving(tp, cached + k - 1)]]

-----------------------------------------------------------------------------
(* class PosCollider: the spatial classifiers *)

(***************************************************************************)
(* The polygon tests of the classifiers (a placed phi arm against a        *)
(* neighbour's circle, central body or arm, or against a fixed envelope)   *)
(* are functions of the poses alone once the calibration is loaded.  The   *)
(* model keeps them as such functions, collider.geometry: a placed arm of  *)
(* posid touches a target iff its theta is at least aim[posid] (it points  *)
(* at the target) and its phi is at most the reach for that target (it is  *)
(* extended far enough; a smaller phi extends the arm).                    *)
(***************************************************************************)

NoTests == <<>>
Verdict(c, tests) == [case |-> c, tests |-> tests]
NoVerdict == Verdict("none", NoTests)

Aimed(self, posid, tp) == tp[1] >= self.geometry.aim[posid]

\* PosCollider._case_II_collision: arm of posid1 against arm of posid2
case_II_collision(self, posid1, posid2, tp1, tp2) ==
    /\ Aimed(self, posid1, tp1)
    /\ Aimed(self, posid2, tp2)
    /\ tp1[2] + tp2[2] <= self.geometry.reach_II

\* PosCollider._case_III_collision: arm of posid1 against central body of posid2
case_III_collision(self, posid1, posid2, tp1, t2) ==
    /\ Aimed(self, posid1, tp1)
    /\ t2 >= self.geometry.body[posid2]
    /\ tp1[2] <= self.geometry.reach_III[posid1]

\* PosCollider._case_IV_collision: arm of posid1 against the Eo circle of posid2
case_IV_collision(self, posid1, posid2, tp1) ==
    /\ Aimed(self, posid1, tp1)
    /\ tp1[2] <= self.geometry.reach_IV[posid1]

\* poly1.collides_with(self.fixed_neighbor_keepouts[fixed_case]) of
\* spatial_collision_with_fixed, poly1 the placed arm or the placed arc
fixed_collision(self, posid, tp, arc, fixed_case) ==
    /\ Aimed(self, posid, tp)
    /\ IF arc THEN fixed_case \in self.geometry.arc_reaches
       ELSE tp[2] <= self.geometry.reach_fixed[fixed_case]

Test(name, arm, other) == [test |-> name, arm |-> arm, other |-> other]

\* a faulty pairwise classifier: the branches for a positioner classified as
\* retracted are missing
spatial_collision_ignoring_retracted(self, posid_A, posid_B, tpA, tpB) ==
    IF tpA[2] >= self.Eo_phi /\ tpB[2] >= self.Eo_phi THEN Verdict(case_I, NoTests)
    ELSE IF tpA[2] < self.Eo_phi /\ tpB[2] >= self.Ei_phi
    THEN Verdict(IF case_III_collision(self, posid_A, posid_B, tpA, tpB[1])
                 THEN case_III ELSE case_I,
                 <<Test("III", posid_A, posid_B)>>)
    ELSE IF tpB[2] < self.Eo_phi /\ tpA[2] >= self.Ei_phi
    THEN Verdict(IF case_III_collision(self, posid_B, posid_A, tpB, tpA[1])
                 THEN case_III ELSE case_I,
                 <<Test("III", posid_B, posid_A)>>)
    ELSE IF case_III_collision(self, posid_A, posid_B, tpA, tpB[1])
    THEN Verdict(case_III, <<Test("III", posid_A, posid_B)>>)
    ELSE IF case_III_collision(self, posid_B, posid_A, tpB, tpA[1])
    THEN Verdict(case_III, <<Test("III", posid_A, posid_B), Test("III", posid_B, posid_A)>>)
    ELSE IF case_II_collision(self, posid_A, posid_B, tpA, tpB)
    THEN Verdict(case_II, <<Test("III", posid_A, posid_B), Test("III", posid_B, posid_A),
                            Test("II", posid_A, posid_B)>>)
    ELSE Verdict(case_I, <<Test("III", posid_A, posid_B), Test("III", posid_B, posid_A),
                           Test("II", posid_A, posid_B)>>)

\* a faulty pairwise classifier: a positioner classified as retracted is not
\* taken to be within Eo
spatial_collision_within_by_phi(self, posid_A, posid_B, tpA, tpB) ==
    LET A_is_within_Eo == tpA[2] >= self.Eo_phi
        B_is_within_Eo == tpB[2] >= self.Eo_phi
    IN  IF A_is_within_Eo /\ B_is_within_Eo THEN Verdict(case_I, NoTests)
        ELSE IF ~A_is_within_Eo /\ posid_B \in self.classified_as_retracted
        THEN Verdict(IF case_IV_collision(self, posid_A, posid_B, tpA) THEN case_IV ELSE case_I,
                     <<Test("IV", posid_A, posid_B)>>)
        ELSE IF ~B_is_within_Eo /\ posid_A \in self.classified_as_retracted
        THEN Verdict(IF case_IV_collision(self, posid_B, posid_A, tpB) THEN case_IV ELSE case_I,
                     <<Test("IV", posid_B, posid_A)>>)
        ELSE IF tpA[2] < self.Eo_phi /\ tpB[2] >= self.Ei_phi
        THEN Verdict(IF case_III_collision(self, posid_A, posid_B, tpA, tpB[1])
                     THEN case_III ELSE case_I,
                     <<Test("III", posid_A, posid_B)>>)
        ELSE IF tpB[2] < self.Eo_phi /\ tpA[2] >= self.Ei_phi
        THEN Verdict(IF case_III_collision(self, posid_B, posid_A, tpB, tpA[1])
                     THEN case_III ELSE case_I,
                     <<Test("III", posid_B, posid_A)>>)
        ELSE IF case_III_collision(self, posid_A, posid_B, tpA, tpB[1])
        THEN Verdict(case_III, <<Test("III", posid_A, posid_B)>>)
        ELSE IF case_III_collision(self, posid_B, posid_A, tpB, tpA[1])
        THEN Verdict(case_III, <<Test("III", posid_A, posid_B), Test("III", posid_B, posid_A)>>)
        ELSE IF case_II_collision(self, posid_A, posid_B, tpA, tpB)
        THEN Verdict(case_II, <<Test("III", posid_A, posid_B), Test("III", posid_B, posid_A),
                                Test("II", posid_A, posid_B)>>)
        ELSE Verdict(case_I, <<Test("III", posid_A, posid_B), Test("III", posid_B, posid_A),
                               Test("II", posid_A, posid_B)>>)

\* a faulty pairwise classifier: where both arms are out, the arm of B is
\* not tested against the body of A
spatial_collision_A_upon_B(self, posid_A, posid_B, tpA, tpB) ==
    LET A_is_within_Eo == tpA[2] >= self.Eo_phi \/ posid_A \in self.classified_as_retracted
        B_is_within_Eo == tpB[2] >= self.Eo_phi \/ posid_B \in self.classified_as_retracted
    IN  IF A_is_within_Eo /\ B_is_within_Eo THEN Verdict(case_I, NoTests)
        ELSE IF ~A_is_within_Eo /\ posid_B \in self.classified_as_retracted
        THEN Verdict(IF case_IV_collision(self, posid_A, posid_B, tpA) THEN case_IV ELSE case_I,
                     <<Test("IV", posid_A, posid_B)>>)
        ELSE IF ~B_is_within_Eo /\ posid_A \in self.classified_as_retracted
        THEN Verdict(IF case_IV_collision(self, posid_B, posid_A, tpB) THEN case_IV ELSE case_I,
                     <<Test("IV", posid_B, posid_A)>>)
        ELSE IF tpA[2] < self.Eo_phi /\ tpB[2] >= self.Ei_phi
        THEN Verdict(IF case_III_collision(self, posid_A, posid_B, tpA, tpB[1])
                     THEN case_III ELSE case_I,
                     <<Test("III", posid_A, posid_B)>>)
        ELSE IF tpB[2] < self.Eo_phi /\ tpA[2] >= self.Ei_phi
        THEN Verdict(IF case_III_collision(self, posid_B, posid_A, tpB, tpA[1])
                     THEN case_III ELSE case_I,
                     <<Test("III", posid_B, posid_A)>>)
        ELSE IF case_III_collision(self, posid_A, posid_B, tpA, tpB[1])
        THEN Verdict(case_III, <<Test("III", posid_A, posid_B)>>)
        ELSE IF case_II_collision(self, posid_A, posid_B, tpA, tpB)
        THEN Verdict(case_II, <<Test("III", posid_A, posid_B), Test("III", posid_B, posid_A),
                                Test("II", posid_A, posid_B)>>)
        ELSE Verdict(case_I, <<Test("III", posid_A, posid_B), Test("III", posid_B, posid_A),
                               Test("II", posid_A, posid_B)>>)

\* PosCollider.spatial_collision_between_positioners: the case returned and
\* the polygon tests made on the way
spatial_collision_between_positioners(self, posid_A, posid_B, tpA, tpB) ==
    LET A_is_within_Eo == tpA[2] >= self.Eo_phi \/ posid_A \in self.classified_as_retracted
        B_is_within_Eo == tpB[2] >= self.Eo_phi \/ posid_B \in self.classified_as_retracted
    IN  IF A_is_within_Eo /\ B_is_within_Eo THEN Verdict(case_I, NoTests)
        ELSE IF ~A_is_within_Eo /\ posid_B \in self.classified_as_retracted
        THEN Verdict(IF case_IV_collision(self, posid_A, posid_B, tpA) THEN case_IV ELSE case_I,
                     <<Test("IV", posid_A, posid_B)>>)
        ELSE IF ~B_is_within_Eo /\ posid_A \in self.classified_as_retracted
        THEN Verdict(IF case_IV_collision(self, posid_B, posid_A, tpB) THEN case_IV ELSE case_I,
                     <<Test("IV", posid_B, posid_A)>>)
        ELSE IF tpA[2] < self.Eo_phi /\ tpB[2] >= self.Ei_phi
        THEN Verdict(IF case_III_collision(self, posid_A, posid_B, tpA, tpB[1])
                     THEN case_III ELSE case_I,
                     <<Test("III", posid_A, posid_B)>>)
        ELSE IF tpB[2] < self.Eo_phi /\ tpA[2] >= self.Ei_phi
        THEN Verdict(IF case_III_collision(self, posid_B, posid_A, tpB, tpA[1])
                     THEN case_III ELSE case_I,
                     <<Test("III", posid_B, posid_A)>>)
        ELSE IF case_III_collision(self, posid_A, posid_B, tpA, tpB[1])
        THEN Verdict(case_III, <<Test("III", posid_A, posid_B)>>)
        ELSE IF case_III_collision(self, posid_B, posid_A, tpB, tpA[1])
        THEN Verdict(case_III, <<Test("III", posid_A, posid_B), Test("III", posid_B, posid_A)>>)
        ELSE IF case_II_collision(self, posid_A, posid_B, tpA, tpB)
        THEN Verdict(case_II, <<Test("III", posid_A, posid_B), Test("III", posid_B, posid_A),
                                Test("II", posid_A, posid_B)>>)
        ELSE Verdict(case_I, <<Test("III", posid_A, posid_B), Test("III", posid_B, posid_A),
                               Test("II", posid_A, posid_B)>>)

\* the loop of spatial_collision_with_fixed over fixed_neighbor_cases[posid],
\* a set, walked in its iteration order
RECURSIVE fixed_loop(_, _, _, _, _, _)
fixed_loop(self, posid, tp, arc, cases, tested) ==
    IF cases = <<>> THEN Verdict(case_I, tested)
    ELSE IF fixed_collision(self, posid, tp, arc, Head(cases))
         THEN Verdict(Head(cases), Append(tested, Head(cases)))
         ELSE fixed_loop(self, posid, tp, arc, Tail(cases), Append(tested, Head(cases)))

\* a faulty fixed classifier: every envelope of the petal is tested, listed
\* for this positioner or not
spatial_collision_with_every_fixed(self, posid, tp, arc) ==
    fixed_loop(self, posid, tp, arc, <<case_PTL, case_GFA>>, NoTests)

\* PosCollider.spatial_collision_with_fixed
spatial_collision_with_fixed(self, posid, tp, arc) ==
    IF self.fixed_neighbor_cases[posid] # <<>>
    THEN fixed_loop(self, posid, tp, arc, self.fixed_neighbor_cases[posid], NoTests)
    ELSE Verdict(case_I, NoTests)

-----------------------------------------------------------------------------
(* PosCollider.spacetime_collision *)

\* any(steps_remaining)
any(seq) == \E i \in 1..Len(seq) : seq[i] # 0

\* posid_A, posid_B of the call
posid_of(i) == IF i = 0 THEN "A" ELSE "B"

\* the sweeps after the first loop: fill_exact and quantize of each participant
prepared_sweeps(self, n, inits, tbls) ==
    [k \in 1..n |->
        quantize("real",
                 fill_exact("real", PosSweep(posid_of(k - 1)), At(inits, k - 1),
                            At(tbls, k - 1), 0),
                 self.timestep)]

\* a faulty check_collision_this_loop: set only when every participant moved
check_collision_when_all_moved(sws, stp, skp) ==
    \A i \in 0..(Len(sws) - 1) :
        At(At(sws, i).was_moving_cached, At(stp, i)) /\ At(stp, i) >= skp

\* check_collision_this_loop after the loop over pos_range
check_collision_this_loop(sws, stp, skp) ==
    \E i \in 0..(Len(sws) - 1) :
        At(At(sws, i).was_moving_cached, At(stp, i)) /\ At(stp, i) >= skp

\* collision_case of this loop
classified_case(self, pp, sws, stp) ==
    IF pp
    THEN spatial_collision_between_positioners(self, posid_of(0), posid_of(1),
             At(At(sws, 0).tp, At(stp, 0)), At(At(sws, 1).tp, At(stp, 1))).case
    ELSE spatial_collision_with_fixed(self, posid_of(0),
             At(At(sws, 0).tp, At(stp, 0)), FALSE).case

\* a faulty record of a collision: collision_time is left as constructed
collided_sweep_untimed(pp, sws, stp, collision_case, i, j) ==
    [At(sws, i) EXCEPT
        !.collision_case = collision_case,
        !.collision_neighbor = IF pp THEN At(sws, j).posid
                               ELSE IF collision_case = case_PTL THEN "PTL" ELSE "GFA",
        !.collision_idx = At(stp, i)]

\* sweeps[i] after the body of "for i, j in zip(pos_range, rev_pos_range)"
collided_sweep(pp, sws, stp, collision_case, i, j) ==
    IF pp
    THEN LET time_i == At(At(sws, i).time, At(stp, i))
             time_j == At(At(sws, j).time, At(stp, j))
             \* max of the keys of {time_i: step[i], time_j: step[j]}
             collision_time == IF time_i > time_j THEN time_i ELSE time_j
         IN  [At(sws, i) EXCEPT
                 !.collision_case = collision_case,
                 !.collision_neighbor = At(sws, j).posid,
                 !.collision_time = collision_time,
                 \* the value stored under that key: step[j] when the keys are equal
                 !.collision_idx = IF time_j = collision_time THEN At(stp, j)
                                   ELSE At(stp, i)]
    ELSE [At(sws, i) EXCEPT
             !.collision_case = collision_case,
             !.collision_neighbor = IF collision_case = case_PTL THEN "PTL" ELSE "GFA",
             !.collision_time = At(At(sws, i).time, At(stp, i)),
             !.collision_idx = At(stp, i)]

\* a faulty pass of the while loop: steps_remaining is not set to 0 on a collision
loop_body_unhalted(self, pp, skp, sws, rem, stp) ==
    LET n         == Len(sws)
        check     == check_collision_this_loop(sws, stp, skp)
        ccase     == IF check THEN classified_case(self, pp, sws, stp) ELSE case_I
        collided  == check /\ ccase # case_I
        sws1      == IF collided
                     THEN [k \in 1..n |-> collided_sweep(pp, sws, stp, ccase, k - 1, n - k)]
                     ELSE sws
        rem2      == [k \in 1..n |-> IF rem[k] - 1 > 0 THEN rem[k] - 1 ELSE 0]
        stp2      == [k \in 1..n |-> IF rem2[k] # 0 THEN stp[k] + 1 ELSE stp[k]]
    IN  [sweeps |-> sws1, steps_remaining |-> rem2, step |-> stp2, checked |-> check]

\* a faulty pass of the while loop: step advances on every participant that
\* had a step remaining when the pass began
loop_body_overstepping(self, pp, skp, sws, rem, stp) ==
    LET n         == Len(sws)
        check     == check_collision_this_loop(sws, stp, skp)
        ccase     == IF check THEN classified_case(self, pp, sws, stp) ELSE case_I
        collided  == check /\ ccase # case_I
        sws1      == IF collided
                     THEN [k \in 1..n |-> collided_sweep(pp, sws, stp, ccase, k - 1, n - k)]
                     ELSE sws
        rem1      == IF collided THEN [k \in 1..n |-> 0] ELSE rem
        rem2      == [k \in 1..n |-> IF rem1[k] - 1 > 0 THEN rem1[k] - 1 ELSE 0]
        stp2      == [k \in 1..n |-> IF rem1[k] # 0 THEN stp[k] + 1 ELSE stp[k]]
    IN  [sweeps |-> sws1, steps_remaining |-> rem2, step |-> stp2, checked |-> check]

\* one pass of the while loop
loop_body(self, pp, skp, sws, rem, stp) ==
    LET n         == Len(sws)
        check     == check_collision_this_loop(sws, stp, skp)
        ccase     == IF check THEN classified_case(self, pp, sws, stp) ELSE case_I
        collided  == check /\ ccase # case_I
        sws1      == IF collided
                     THEN [k \in 1..n |-> collided_sweep(pp, sws, stp, ccase, k - 1, n - k)]
                     ELSE sws
        rem1      == IF collided THEN [k \in 1..n |-> 0] ELSE rem
        rem2      == [k \in 1..n |-> IF rem1[k] - 1 > 0 THEN rem1[k] - 1 ELSE 0]
        stp2      == [k \in 1..n |-> IF rem2[k] # 0 THEN stp[k] + 1 ELSE stp[k]]
    IN  [sweeps |-> sws1, steps_remaining |-> rem2, step |-> stp2, checked |-> check]

\* the while loop, run to its end
RECURSIVE run_loop(_, _, _, _, _, _)
run_loop(self, pp, skp, sws, rem, stp) ==
    IF ~any(rem) THEN sws
    ELSE LET r == loop_body(self, pp, skp, sws, rem, stp)
         IN  run_loop(self, pp, skp, r.sweeps, r.steps_remaining, r.step)

\* the sweeps spacetime_collision returns
spacetime_collision(self, pp, inits, tbls, skp) ==
    LET n   == IF pp THEN 2 ELSE 1
        sws == prepared_sweeps(self, n, inits, tbls)
    IN  run_loop(self, pp, skp, sws,
                 [k \in 1..n |-> Len(sws[k].time)], [k \in 1..n |-> 0])

-----------------------------------------------------------------------------
(* class PosPoly *)

(***************************************************************************)
(* A polygon object is its two coordinate arrays and n_pts.  Coordinates   *)
(* are integers and angles are whole multiples of 90 degrees, on which     *)
(* cos and sin are whole numbers; the arithmetic is that of the real       *)
(* numbers.  Every method that builds a polygon gives a record             *)
(*   [raised, self, new]                                                   *)
(* raised: an exception left the method; self: the receiver after the      *)
(* call; new: the polygon returned.                                        *)
(***************************************************************************)

Polygon(x, y) == [x |-> x, y |-> y, n_pts |-> Len(x)]

\* the object __cinit__ leaves when it returns before allocating: the C
\* fields of a cdef class start at zero
NoArrays == Polygon(<<>>, <<>>)

\* PosPoly.__cinit__, normal usage (allocation False).  uninitialized is the
\* value found in freshly allocated memory.
PosPoly_cinit(points, close_polygon, uninitialized) ==
    LET xlen  == Len(points[1])
        ylen  == Len(points[2])
        extra == IF close_polygon THEN 1 ELSE 0
    IN  IF xlen # ylen
        THEN \* print('Error: different lengths ...'); return
             NoArrays
        ELSE LET x == points[1]
                 y == points[2]
             IN  IF extra = 1
                 THEN \* self.x[xlen] = self.x[0]: with xlen = 0 it reads the
                      \* element it is about to write
                      Polygon(Append(x, IF xlen > 0 THEN x[1] ELSE uninitialized),
                              Append(y, IF xlen > 0 THEN y[1] ELSE uninitialized))
                 ELSE Polygon(x, y)

\* PosPoly.__cinit__, expert usage: allocation > 0
PosPoly_allocated(allocation) ==
    Polygon([i \in 1..allocation |-> 0], [i \in 1..allocation |-> 0])

Returned(self, new) == [raised |-> FALSE, self |-> self, new |-> new]
\* the method was left by an exception: nothing is returned
Raised(self) == [raised |-> TRUE, self |-> self, new |-> NoArrays]

\* new.x[i], new.y[i] = points[i] for every i
MapPoints(poly, points) ==
    [poly EXCEPT !.x = [i \in 1..poly.n_pts |-> points[i][1]],
                 !.y = [i \in 1..poly.n_pts |-> points[i][2]]]

\* PosPoly.copy.  PosPoly(points=0, close_polygon=False, allocation=self.n_pts):
\* with n_pts = 0 the allocation is not > 0 and len(points[0]) is asked of the
\* integer 0 (TypeError).
copy(self) ==
    IF self.n_pts = 0 THEN Raised(self)
    ELSE LET new == PosPoly_allocated(self.n_pts)
         IN  Returned(self, [new EXCEPT !.x = self.x, !.y = self.y])

\* cos and sin of a whole multiple of 90 degrees
Cos90(angle) == CASE angle % 360 = 0 -> 1 [] angle % 360 = 180 -> -1 [] OTHER -> 0
Sin90(angle) == CASE angle % 360 = 90 -> 1 [] angle % 360 = 270 -> -1 [] OTHER -> 0

\* a faulty rotated: the receiver's own arrays are turned and returned
rotated_in_place(self, angle) ==
    LET c == Cos90(angle)
        sn == Sin90(angle)
        rot(x, y) == <<c * x - sn * y, sn * x + c * y>>
    IN  Returned(MapPoints(self, [i \in 1..self.n_pts |-> rot(self.x[i], self.y[i])]), MapPoints(self, [i \in 1..self.n_pts |-> rot(self.x[i], self.y[i])]))

\* PosPoly.rotated
rotated(self, angle) ==
    LET r == copy(self)
        c == Cos90(angle)
        sn == Sin90(angle)
        rot(x, y) == <<c * x - sn * y, sn * x + c * y>>
    IN  IF r.raised THEN r ELSE Returned(r.self, MapPoints(r.new, [i \in 1..r.new.n_pts |-> rot(r.new.x[i], r.new.y[i])]))

\* PosPoly.translated
translated(self, dx, dy) ==
    LET r == copy(self)
        shift(x, y) == <<x + dx, y + dy>>
    IN  IF r.raised THEN r ELSE Returned(r.self, MapPoints(r.new, [i \in 1..r.new.n_pts |-> shift(r.new.x[i], r.new.y[i])]))

RECURSIVE Isqrt(_, _)
Isqrt(v, k) == IF (k + 1) * (k + 1) > v THEN k ELSE Isqrt(v, k + 1)
\* (x**2 + y**2)**0.5, a whole number on the points the model uses
Radius(x, y) == Isqrt(x * x + y * y, 0)

\* the sign of atan2(y, x): of y, and of a point on the negative x axis, pi
Atan2Sign(y, x) == IF y > 0 \/ (y = 0 /\ x < 0) THEN 1 ELSE IF y < 0 THEN -1 ELSE 0

\* PosPoly.expanded_radially.  cos(atan2(y, x)) = x / radius, and atan2(0, 0)
\* = 0 moves a point at the origin along x.
expanded_radially(self, dR) ==
    LET r == copy(self)
        out(x, y) == IF x = 0 /\ y = 0 THEN <<dR, 0>>
                     ELSE <<x + (dR * x) \div Radius(x, y), y + (dR * y) \div Radius(x, y)>>
    IN  IF r.raised THEN r ELSE Returned(r.self, MapPoints(r.new, [i \in 1..r.new.n_pts |-> out(r.new.x[i], r.new.y[i])]))

\* PosPoly.expanded_x
expanded_x(self, left_shift, right_shift) ==
    LET r == copy(self)
        widen(x, y) == IF x > 0 THEN <<x + right_shift, y>>
                       ELSE IF x < 0 THEN <<x - left_shift, y>>
                       ELSE <<x, y>>
    IN  IF r.raised THEN r ELSE Returned(r.self, MapPoints(r.new, [i \in 1..r.new.n_pts |-> widen(r.new.x[i], r.new.y[i])]))

\* PosPoly.expanded_angularly.  radius * cos(this_angle +- dA) is the point
\* turned by +-dA about the origin.
expanded_angularly(self, dA) ==
    LET r == copy(self)
        fan(x, y) == LET a == Atan2Sign(y, x) * dA
                     IN  <<Cos90(a) * x - Sin90(a) * y, Sin90(a) * x + Cos90(a) * y>>
    IN  IF r.raised THEN r ELSE Returned(r.self, MapPoints(r.new, [i \in 1..r.new.n_pts |-> fan(r.new.x[i], r.new.y[i])]))

\* a faulty place_as_phi_arm: the arm length is laid along x whatever theta
place_as_phi_arm_unturned(self, theta, phi, x0, y0, r1) ==
    LET r == rotated(self, theta + phi)
    IN  IF r.raised THEN r
        ELSE Returned(r.self,
                      MapPoints(r.new, [i \in 1..r.new.n_pts |->
                                            <<r.new.x[i] + x0 + r1, r.new.y[i] + y0>>]))

\* PosPoly.place_as_phi_arm
place_as_phi_arm(self, theta, phi, x0, y0, r1) ==
    LET r == rotated(self, theta + phi)
        delta_x == x0 + r1 * Cos90(theta)
        delta_y == y0 + r1 * Sin90(theta)
        shift(x, y) == <<x + delta_x, y + delta_y>>
    IN  IF r.raised THEN r ELSE Returned(r.self, MapPoints(r.new, [i \in 1..r.new.n_pts |-> shift(r.new.x[i], r.new.y[i])]))

\* PosPoly.place_as_central_body
place_as_central_body(self, theta, x0, y0) ==
    LET r == rotated(self, theta)
        shift(x, y) == <<x + x0, y + y0>>
    IN  IF r.raised THEN r ELSE Returned(r.self, MapPoints(r.new, [i \in 1..r.new.n_pts |-> shift(r.new.x[i], r.new.y[i])]))

\* _c_max and _c_min: 0.0 for an array of length 0
c_max(x, length) == IF length >= 1 THEN MaxOf({x[i] : i \in 1..length}) ELSE 0
c_min(x, length) == IF length >= 1 THEN MinOf({x[i] : i \in 1..length}) ELSE 0

\* a faulty pre-check: boxes that only touch are rejected as well
bounding_boxes_overlap(x1, y1, len1, x2, y2, len2) ==
    ~ \/ c_max(x1, len1) <= c_min(x2, len2)
      \/ c_max(y1, len1) <= c_min(y2, len2)
      \/ c_max(x2, len2) <= c_min(x1, len1)
      \/ c_max(y2, len2) <= c_min(y1, len1)

\* _bounding_boxes_collide
bounding_boxes_collide(x1, y1, len1, x2, y2, len2) ==
    IF c_max(x1, len1) < c_min(x2, len2) THEN FALSE
    ELSE IF c_max(y1, len1) < c_min(y2, len2) THEN FALSE
    ELSE IF c_max(x2, len2) < c_min(x1, len1) THEN FALSE
    ELSE IF c_max(y2, len2) < c_min(y1, len1) THEN FALSE
    ELSE TRUE

\* 0 <= num / den <= 1, for den # 0
InUnitInterval(num, den) ==
    IF den > 0 THEN 0 <= num /\ num <= den ELSE den <= num /\ num <= 0

\* a faulty segment test: B's line only has to cross segment A
segments_intersect_line(A1, A2, B1, B2) ==
    LET dx_A == A2[1] - A1[1]
        dy_A == A2[2] - A1[2]
        dx_B == B2[1] - B1[1]
        dy_B == B2[2] - B1[2]
        delta == dx_B * dy_A - dy_B * dx_A
    IN  delta # 0
        /\ InUnitInterval(dx_A * (B1[2] - A1[2]) + dy_A * (A1[1] - B1[1]), delta)

\* a faulty segment test: segments that only touch do not intersect
segments_cross(A1, A2, B1, B2) ==
    LET dx_A == A2[1] - A1[1]
        dy_A == A2[2] - A1[2]
        dx_B == B2[1] - B1[1]
        dy_B == B2[2] - B1[2]
        delta == dx_B * dy_A - dy_B * dx_A
        ns == dx_A * (B1[2] - A1[2]) + dy_A * (A1[1] - B1[1])
        nt == dx_B * (A1[2] - B1[2]) + dy_B * (B1[1] - A1[1])
    IN  /\ delta # 0
        /\ InUnitInterval(ns, delta) /\ ns # 0 /\ ns # delta
        /\ InUnitInterval(nt, -delta) /\ nt # 0 /\ nt # -delta

\* _segments_intersect
segments_intersect(A1, A2, B1, B2) ==
    LET dx_A == A2[1] - A1[1]
        dy_A == A2[2] - A1[2]
        dx_B == B2[1] - B1[1]
        dy_B == B2[2] - B1[2]
        delta == dx_B * dy_A - dy_B * dx_A
    IN  IF delta = 0 THEN FALSE
        ELSE /\ InUnitInterval(dx_A * (B1[2] - A1[2]) + dy_A * (A1[1] - B1[1]), delta)
             /\ InUnitInterval(dx_B * (A1[2] - B1[2]) + dy_B * (B1[1] - A1[1]), -delta)

\* _polygons_collide computes len1 - 1 and len2 - 1 on unsigned int: with a
\* length of 0 the loop runs past the end of the array.  It does so when the
\* outer loop is entered at all with len1 = 0, or with len2 = 0.
polygons_collide_overruns(len1, len2) == len1 = 0 \/ (len1 >= 2 /\ len2 = 0)

\* a faulty overlap test: polygons whose boxes meet are taken to collide
polygons_collide_boxes(x1, y1, len1, x2, y2, len2) == len1 >= 1 /\ len2 >= 1

\* _polygons_collide, where it stays inside its arrays: the first
\* intersecting pair of segments returns True
polygons_collide(x1, y1, len1, x2, y2, len2) ==
    \E i \in 0..(len1 - 2) : \E j \in 0..(len2 - 2) :
        segments_intersect(<<At(x1, i), At(y1, i)>>, <<At(x1, i + 1), At(y1, i + 1)>>,
                           <<At(x2, j), At(y2, j)>>, <<At(x2, j + 1), At(y2, j + 1)>>)

\* PosPoly.collides_with has no defined result exactly when _polygons_collide
\* is reached and overruns
collides_with_overruns(self, other) ==
    /\ bounding_boxes_collide(self.x, self.y, self.n_pts, other.x, other.y, other.n_pts)
    /\ polygons_collide_overruns(self.n_pts, other.n_pts)

\* PosPoly.collides_with
collides_with(self, other) ==
    IF bounding_boxes_collide(self.x, self.y, self.n_pts, other.x, other.y, other.n_pts)
    THEN polygons_collide(self.x, self.y, self.n_pts, other.x, other.y, other.n_pts)
    ELSE FALSE

\* a faulty circle test: a vertex on the circle counts as inside
collides_with_closed_disk(self, x, y, radius) ==
    \E i \in 0..(self.n_pts - 1) :
        /\ radius >= 0
        /\ (At(self.x, i) - x) * (At(self.x, i) - x)
            + (At(self.y, i) - y) * (At(self.y, i) - y) <= radius * radius

\* PosPoly.collides_with_circle.  distance < R, distance a square root:
\* R > 0 and distance**2 < R**2.
collides_with_circle(self, x, y, radius) ==
    \E i \in 0..(self.n_pts - 1) :
        /\ radius > 0
        /\ (At(self.x, i) - x) * (At(self.x, i) - x)
            + (At(self.y, i) - y) * (At(self.y, i) - y) < radius * radius

-----------------------------------------------------------------------------
(* Inputs of the sweep specifications *)

\* move_time values of the tables, in ticks
MoveTimes == {0, 1, 3}
\* prepause, move_time, postpause values of the floating-point tables, in tenths
\* of a second
FloatTenths == 0..3

\* steps one exact segment can be cut into
MaxSegmentSteps == MaxOf(MoveTimes \cup {k + 1 : k \in FloatTenths})
\* angle unit: every distance of a table is a multiple of it
PosUnit == LcmUpTo(MaxSegmentSteps)

Row(dT, dP, prepause, move_time, postpause) ==
    [dT |-> dT, dP |-> dP, prepause |-> prepause, move_time |-> move_time,
     postpause |-> postpause]

\* the move table of a list of rows, as the dict of arrays the code reads
TableOf(rows) ==
    [nrows     |-> Len(rows),
     dT        |-> [i \in 1..Len(rows) |-> rows[i].dT],
     dP        |-> [i \in 1..Len(rows) |-> rows[i].dP],
     prepause  |-> [i \in 1..Len(rows) |-> rows[i].prepause],
     move_time |-> [i \in 1..Len(rows) |-> rows[i].move_time],
     postpause |-> [i \in 1..Len(rows) |-> rows[i].postpause]]

SweepRows ==
    {Row(d[1], d[2], 0, 1, 0) : d \in {<<PosUnit, 0>>, <<0, -PosUnit>>, <<0, 0>>}}
    \cup {Row(d[1], d[2], 0, 3, 0) : d \in {<<-2 * PosUnit, 0>>, <<0, PosUnit>>}}
    \cup {Row(d[1], d[2], 1, 0, 0) : d \in {<<PosUnit, 0>>, <<0, 0>>}}
    \cup {Row(0, 0, 0, 0, 2), Row(0, 0, 0, 0, 0),
          Row(0, -PosUnit, 1, 1, 2), Row(0, PosUnit, 1, 3, 0), Row(PosUnit, 0, 0, 1, 2)}

SweepTimesteps == {1, 2, 3}
SweepStartTimes == {0, 4}

FloatRows ==
    {Row(0, -PosUnit, Tenths("float", pre), Tenths("float", mv), Tenths("float", post)) :
        pre \in {0, 1}, mv \in FloatTenths, post \in {0, 2}}

-----------------------------------------------------------------------------
(* The collider object of the specifications *)

Posids == {"A", "B"}
FixedCases == {case_PTL, case_GFA}

\* a reach no arm has, and a reach every arm has
Never == -100 * PosUnit
Always == 100 * PosUnit

Geometry(aim, body, reach_II, reach_III, reach_IV, reach_fixed, arc_reaches) ==
    [aim |-> aim, body |-> body, reach_II |-> reach_II, reach_III |-> reach_III,
     reach_IV |-> reach_IV, reach_fixed |-> reach_fixed, arc_reaches |-> arc_reaches]

Collider(dt, Eo_phi, Ei_phi, retracted, fixed_cases, geometry) ==
    [timestep |-> dt, Eo_phi |-> Eo_phi, Ei_phi |-> Ei_phi,
     classified_as_retracted |-> retracted,
     fixed_neighbor_cases |-> fixed_cases,
     geometry |-> geometry]

OnA(x) == [p \in Posids |-> x]
NoFixed == [p \in Posids |-> <<>>]

\* a collider in which no polygon test ever succeeds
ClearGeometry ==
    Geometry(OnA(0), OnA(0), Never, OnA(Never), OnA(Never),
             [c \in FixedCases |-> Never], {})
ClearCollider == Collider(1, 0, PosUnit, {}, NoFixed, ClearGeometry)

\* no call of extend, no call of PosPoly made
NoExtend == [calls |-> 0]
NoPolyCall == [op |-> "none"]

\* the sweep variables, while another object is exercised
SweepIdle ==
    /\ arith = "real"
    /\ table = TableOf(<<>>)
    /\ init_poslocTP = <<0, 0>>
    /\ start_time = 0
    /\ timestep = 1
    /\ s = PosSweep("posid")
    /\ q = PosSweep("posid")
    /\ phase = "idle"
    /\ ext = NoExtend

\* the classifier variables, while another object is exercised
ClassifyIdle ==
    /\ collider = ClearCollider
    /\ call = "none"
    /\ poslocTP_A = <<0, 0>>
    /\ poslocTP_B = <<0, 0>>
    /\ use_phi_arc = FALSE
    /\ verdict = NoVerdict

\* the driver variables, while another object is exercised
DriverIdle ==
    /\ pc = "idle"
    /\ pospos = FALSE
    /\ init_poslocTPs = <<>>
    /\ tables = <<>>
    /\ skip = 0
    /\ sweeps = <<>>
    /\ steps_remaining = <<>>
    /\ step = <<>>
    /\ checks = <<>>
    /\ passes = 0

\* the polygon variables, while another object is exercised
PolyIdle ==
    /\ polys = <<>>
    /\ poly_call = NoPolyCall

-----------------------------------------------------------------------------
(* class PosCollider: the registry of positioners *)

\* the most neighbours _identify_neighbors accepts
MaxNeighbors == 6

\* the OFFSET_X values of the model: -20 is far from every other positioner.
\* OFFSET_Y is 0 throughout.
Offsets == {-20, 0} \cup {3 * p : p \in 1..MaxPositioners}

\* self.Ee_poly of _load_circle_envelopes: _circle_poly_points with
\* RESOLUTION_EE = 4 puts the points at 0, 90, 180 and 270 degrees, here at
\* points_radius 2. LENGTH_R1 is the same for every positioner, so
\* _max_extent and with it Ee do not change between calls.
Ee_poly == PosPoly_cinit(<<<<2, 0, -2, 0>>, <<0, 2, 0, -2>>>>, TRUE, 0)

\* self.fixed_neighbor_keepouts of _load_keepouts
fixed_neighbor_keepouts ==
    [c \in FixedCases |->
        IF c = case_PTL
        THEN PosPoly_cinit(<<<<24, 30, 30>>, <<0, -3, 3>>>>, TRUE, 0)
        ELSE PosPoly_cinit(<<<<-21, -27, -27>>, <<0, -3, 3>>>>, TRUE, 0)]

\* _identify_neighbors: Ee.collides_with(Ee_neighbor), for every pair of
\* OFFSET_X values the two envelopes can be translated to
Ee_collides ==
    [x \in Offsets, neighbor_x \in Offsets |->
        LET Ee          == translated(Ee_poly, x, 0).new
            Ee_neighbor == translated(Ee_poly, neighbor_x, 0).new
        IN  collides_with(Ee, Ee_neighbor)]

\* _identify_neighbors: Ee.collides_with(EE_neighbor) for a fixed keepout
Ee_collides_fixed ==
    [x \in Offsets, c \in FixedCases |->
        collides_with(translated(Ee_poly, x, 0).new, fixed_neighbor_keepouts[c])]

\* PosCollider.__init__: the registry of a new collider. A dict whose values
\* the properties do not read is kept as the set of its keys. R1, R2, y0, t0,
\* p0 and keepout_expansions are written by the statements that write x0 and
\* have its keys; devicelocs has one key per key of posmodels.
EmptyRegistry ==
    [posids                  |-> {},
     posindexes              |-> <<>>,
     posmodels               |-> {},
     pos_neighbors           |-> <<>>,
     fixed_neighbor_cases    |-> <<>>,
     x0                      |-> <<>>,
     classified_as_retracted |-> {},
     keepouts_T              |-> {},
     keepouts_P              |-> {},
     keepouts_arcP           |-> {},
     Eo_polys                |-> <<>>,
     Ei_polys                |-> <<>>,
     Ee_polys                |-> <<>>,
     posids_to_animate       |-> {}]

\* a faulty load: _adjust_keepouts adjusts the keepouts of the positioners
\* that were calibrated by an earlier load only
load_config_data_of_calibrated(self, state) ==
    LET x0 == [p \in DOMAIN self.x0 \cup self.posmodels |->
                   IF p \in self.posmodels THEN state[p].OFFSET_X ELSE self.x0[p]]
        classified_as_retracted ==
            self.classified_as_retracted
                \cup {p \in self.posmodels : state[p].CLASSIFIED_AS_RETRACTED}
        loaded == [self EXCEPT !.x0 = x0,
                               !.classified_as_retracted = classified_as_retracted]
        adjusted == [loaded EXCEPT !.keepouts_P = @ \cup (self.posids \cap DOMAIN self.x0),
                                   !.keepouts_T = @ \cup (self.posids \cap DOMAIN self.x0)]
        Eo_poly(p) == IF p \in classified_as_retracted
                      THEN "Eo_poly_with_margin" ELSE "Eo_poly"
        enveloped ==
            [adjusted EXCEPT
                !.Eo_polys = [p \in self.posids |-> [poly |-> Eo_poly(p), x |-> x0[p]]],
                !.Ei_polys = [p \in self.posids |-> [poly |-> "Ei_poly", x |-> x0[p]]],
                !.Ee_polys = [p \in self.posids |-> [poly |-> "Ee_poly", x |-> x0[p]]]]
    IN  IF DOMAIN x0 = {}
        THEN [raised |-> TRUE, self |-> adjusted]
        ELSE [raised |-> FALSE,
              self |-> [enveloped EXCEPT !.keepouts_arcP = @ \cup self.posmodels]]

\* PosCollider._load_config_data, reading the positioner state `state`:
\* _load_positioner_params, _adjust_keepouts, _load_circle_envelopes and
\* _load_keepouts_arcP. _max_extent raises ValueError (max of no values) when
\* no positioner has been calibrated.
load_config_data(self, state) ==
    LET \* _load_positioner_params: for posid, posmodel in self.posmodels.items()
        x0 == [p \in DOMAIN self.x0 \cup self.posmodels |->
                   IF p \in self.posmodels THEN state[p].OFFSET_X ELSE self.x0[p]]
        \* if classified_retracted: self.classified_as_retracted.add(posid)
        classified_as_retracted ==
            self.classified_as_retracted
                \cup {p \in self.posmodels : state[p].CLASSIFIED_AS_RETRACTED}
        loaded == [self EXCEPT !.x0 = x0,
                               !.classified_as_retracted = classified_as_retracted]
        \* _adjust_keepouts: for posid in self.posids
        adjusted == [loaded EXCEPT !.keepouts_P = @ \cup self.posids,
                                   !.keepouts_T = @ \cup self.posids]
        \* _load_circle_envelopes: the three dicts are emptied and filled
        Eo_poly(p) == IF p \in classified_as_retracted
                      THEN "Eo_poly_with_margin" ELSE "Eo_poly"
        enveloped ==
            [adjusted EXCEPT
                !.Eo_polys = [p \in self.posids |-> [poly |-> Eo_poly(p), x |-> x0[p]]],
                !.Ei_polys = [p \in self.posids |-> [poly |-> "Ei_poly", x |-> x0[p]]],
                !.Ee_polys = [p \in self.posids |-> [poly |-> "Ee_poly", x |-> x0[p]]]]
    IN  IF DOMAIN x0 = {}
        THEN [raised |-> TRUE, self |-> adjusted]
        ELSE \* _load_keepouts_arcP: for posid, posmodel in self.posmodels.items()
             [raised |-> FALSE,
              self |-> [enveloped EXCEPT !.keepouts_arcP = @ \cup self.posmodels]]

\* PosCollider._identify_neighbors (use_neighbor_loc_dict False): the
\* neighbours are added to the sets, and the assert is made after that
identify_neighbors(self, posid) ==
    LET near  == {possible_neighbor \in self.posids :
                     /\ ~(posid = possible_neighbor)
                     /\ Ee_collides[self.x0[posid], self.x0[possible_neighbor]]}
        fixed == {possible_neighbor \in FixedCases :
                     Ee_collides_fixed[self.x0[posid], possible_neighbor]}
        after == [self EXCEPT !.pos_neighbors[posid] = @ \cup near,
                              !.fixed_neighbor_cases[posid] = @ \cup fixed]
    IN  [raised |-> ~(Cardinality(after.pos_neighbors[posid]) <= MaxNeighbors),
         self   |-> after]

\* PosCollider.add_positioners(posmodels): every outcome the call can have.
\* `for p in self.posids' walks a set: where an assert fails, any positioner
\* whose assert fails can be the first one reached, after any of those whose
\* assert holds.
add_positioners(self, posmodels, state) ==
    LET new     == {posmodels[i] : i \in 1..Len(posmodels)} \ self.posids
        first(posid) == CHOOSE i \in 1..Len(posmodels) : posmodels[i] = posid /\ \A j \in 1..(i - 1) : posmodels[j] # posid
        before(posid) == {posmodels[j] : j \in 1..(first(posid) - 1)} \ self.posids
        posids  == self.posids \cup new
        entered ==
            [self EXCEPT
                !.posids = posids,
                !.posindexes = [p \in posids |->
                    IF p \in new
                    THEN Cardinality(self.posids) + Cardinality(before(p)) + 1
                    ELSE self.posindexes[p]],
                !.posmodels = @ \cup new,
                !.pos_neighbors = [p \in posids |->
                    IF p \in new THEN {} ELSE self.pos_neighbors[p]],
                !.fixed_neighbor_cases = [p \in posids |->
                    IF p \in new THEN {} ELSE self.fixed_neighbor_cases[p]]]
        loaded  == load_config_data(entered, state)
        found(p) == identify_neighbors(loaded.self, p)
        identified(reached) ==
            [loaded.self EXCEPT
                !.pos_neighbors = [p \in posids |->
                    IF p \in reached THEN found(p).self.pos_neighbors[p] ELSE @[p]],
                !.fixed_neighbor_cases = [p \in posids |->
                    IF p \in reached THEN found(p).self.fixed_neighbor_cases[p] ELSE @[p]]]
        failing == {p \in posids : found(p).raised}
    IN  IF loaded.raised
        THEN {[raised |-> TRUE, error |-> "ValueError", posid |-> None,
               self |-> loaded.self]}
        ELSE IF failing = {}
        THEN {[raised |-> FALSE, error |-> "", posid |-> None,
               self |-> [identified(posids) EXCEPT !.posids_to_animate = @ \cup posids]]}
        ELSE {[raised |-> TRUE, error |-> "AssertionError", posid |-> p,
               self |-> identified(passed \cup {p})] :
                   p \in failing, passed \in SUBSET (posids \ failing)}

\* PosCollider.refresh_calibrations
refresh_calibrations(self, state) ==
    LET loaded == load_config_data(self, state)
    IN  [raised |-> loaded.raised,
         error  |-> IF loaded.raised THEN "ValueError" ELSE "",
         posid  |-> None,
         self   |-> loaded.self]

\* no registry call made yet
NoRegistryCall == [op |-> "none", n |-> 0]

\* the registry variables, while another object is exercised
RegistryIdle ==
    /\ posmodel_state = <<>>
    /\ registry = EmptyRegistry
    /\ registry_call = NoRegistryCall

-----------------------------------------------------------------------------
(* One sweep, built as test2() builds it *)

SweepInit ==
    /\ arith = "real"
    /\ table \in {TableOf(rows) : rows \in SeqsUpTo(SweepRows, MaxRows)}
    /\ init_poslocTP = <<0, 0>>
    /\ start_time \in SweepStartTimes
    /\ timestep \in SweepTimesteps
    /\ s = PosSweep("posid")
    /\ q = PosSweep("posid")
    /\ phase = "new"
    /\ ext = NoExtend
    /\ ClassifyIdle
    /\ DriverIdle
    /\ PolyIdle
    /\ RegistryIdle

\* test2 with the times read as binary floating point: timestep 0.1, every
\* time of the table a whole number of tenths
FloatInit ==
    /\ arith = "float"
    /\ table \in {TableOf(rows) : rows \in SeqsUpTo(FloatRows, MaxFloatRows)}
    /\ init_poslocTP = <<0, 0>>
    /\ start_time \in {Tenths("float", 0), Tenths("float", 10)}
    /\ timestep = Tenths("float", 1)
    /\ s = PosSweep("posid")
    /\ q = PosSweep("posid")
    /\ phase = "new"
    /\ ext = NoExtend
    /\ ClassifyIdle
    /\ DriverIdle
    /\ PolyIdle
    /\ RegistryIdle

\* s.fill_exact(init, t, start_time)
FillExact ==
    /\ phase = "new"
    /\ IF fill_exact_raises(table)
       THEN \* the exception leaves the method before self.time is assigned
            /\ s' = s
            /\ phase' = "raised"
       ELSE /\ s' = fill_exact(arith, s, init_poslocTP, table, start_time)
            /\ phase' = "exact"
    /\ UNCHANGED <<arith, table, init_poslocTP, start_time, timestep, q>>
    /\ UNCHANGED <<extendVars, collider, classifyVars, driverVars, polyVars, registryVars>>

\* q = s.copy(); q.quantize(timestep)
Quantize ==
    /\ phase = "exact"
    /\ q' = quantize(arith, s, timestep)
    /\ phase' = "quantized"
    /\ UNCHANGED <<arith, table, init_poslocTP, start_time, timestep, s>>
    /\ UNCHANGED <<extendVars, collider, classifyVars, driverVars, polyVars, registryVars>>

SweepNext == FillExact \/ Quantize

SweepSpec == SweepInit /\ [][SweepNext]_vars
FloatSpec == FloatInit /\ [][SweepNext]_vars

-----------------------------------------------------------------------------
(* Properties of the sweep builder *)

Positive(x) == IF x > 0 THEN 1 ELSE 0

\* what each exact sample after the first is, row by row: a pause or a move
RECURSIVE SampleLabels(_, _)
SampleLabels(tbl, i) ==
    IF i >= tbl.nrows THEN <<>>
    ELSE (IF At(tbl.prepause, i) > 0 THEN <<[row |-> i, kind |-> "pause"]>> ELSE <<>>)
         \o (IF At(tbl.move_time, i) > 0 THEN <<[row |-> i, kind |-> "move"]>> ELSE <<>>)
         \o (IF At(tbl.postpause, i) > 0 THEN <<[row |-> i, kind |-> "pause"]>> ELSE <<>>)
         \o SampleLabels(tbl, i + 1)

TotalTime(tbl) == SeqSum(tbl.prepause) + SeqSum(tbl.move_time) + SeqSum(tbl.postpause)

\* initial pose plus the (dT, dP) of every row with move_time > 0
ExactFinalPose(init, tbl) ==
    <<init[1] + SeqSum([i \in 1..tbl.nrows |-> IF tbl.move_time[i] > 0 THEN tbl.dT[i] ELSE 0]),
      init[2] + SeqSum([i \in 1..tbl.nrows |-> IF tbl.move_time[i] > 0 THEN tbl.dP[i] ELSE 0])>>

\* C10: after fill_exact the exact trace has 1 + sum over rows of (prepause>0)
\* + (move_time>0) + (postpause>0) samples, starts at (start_time, init_pose),
\* has strictly increasing times ending at start_time + the sum of all the
\* table's times, and its pose changes only across move samples, by that row's
\* (dT, dP).
C10_FillExactShape ==
    phase # "new" =>
        LET labels == SampleLabels(table, 0)
        IN  /\ Len(s.time) = 1 + SeqSum([i \in 1..table.nrows |->
                    Positive(table.prepause[i]) + Positive(table.move_time[i])
                    + Positive(table.postpause[i])])
            /\ Len(s.tp) = Len(s.time)
            /\ s.time[1] = start_time
            /\ s.tp[1] = init_poslocTP
            /\ \A j \in 1..(Len(s.time) - 1) : s.time[j] < s.time[j + 1]
            /\ Last(s.time) = start_time + TotalTime(table)
            /\ Len(labels) = Len(s.time) - 1
            /\ \A j \in 1..Len(labels) :
                   IF labels[j].kind = "move"
                   THEN s.tp[j + 1] = <<s.tp[j][1] + At(table.dT, labels[j].row),
                                        s.tp[j][2] + At(table.dP, labels[j].row)>>
                   ELSE s.tp[j + 1] = s.tp[j]

\* a table with a full row (prepause, move, postpause), and a row whose
\* distance is dropped because its move_time is 0, has been filled in
C10_Witness ==
    /\ phase = "exact"
    /\ \E i \in 1..table.nrows :
           table.prepause[i] > 0 /\ table.move_time[i] > 0 /\ table.postpause[i] > 0
    /\ \E i \in 1..table.nrows : table.move_time[i] = 0 /\ table.dT[i] # 0
    /\ Len(s.time) >= 5

\* C8: after quantize(dt), dt > 0, the time list starts at the exact start
\* time, is strictly increasing with every consecutive difference exactly dt,
\* and time, tp and was_moving have equal length.
C8_QuantizedTimes ==
    phase = "quantized" =>
        /\ q.time[1] = start_time
        /\ \A j \in 1..(Len(q.time) - 1) :
               q.time[j + 1] > q.time[j] /\ q.time[j + 1] - q.time[j] = timestep
        /\ Len(q.tp) = Len(q.time)
        /\ Len(q.was_moving_cached) = Len(q.time)

\* a trace of several steps has been quantized whose exact segments are not
\* whole numbers of timesteps
C8_Witness ==
    /\ phase = "quantized"
    /\ Len(q.time) >= 4
    /\ Last(q.time) # Last(s.time)
    /\ \E j \in 1..(Len(s.time) - 1) : (s.time[j + 1] - s.time[j]) % timestep # 0

\* C7: every exact pose occurs in the quantized trace, and the last quantized
\* pose is the exact final pose (initial pose plus the (dT, dP) of every row
\* with move_time > 0).
C7_SegmentEndsExact ==
    phase = "quantized" =>
        /\ \A i \in 1..Len(s.tp) : \E j \in 1..Len(q.tp) : q.tp[j] = s.tp[i]
        /\ Last(q.tp) = ExactFinalPose(init_poslocTP, table)

\* C9: with the start time and every prepause, move_time and postpause a whole
\* number of timesteps, the quantized trace ends at the final time of the exact
\* trace (stated with a tolerance of half a timestep for the rounding of the
\* additions).
C9_EndsAtFinalTime ==
    phase = "quantized" => 2 * Abs(Last(q.time) - Last(s.time)) < timestep

-----------------------------------------------------------------------------
(* A sweep filled, quantized and extended *)

ExtendRows ==
    {Row(0, -PosUnit, 0, 1, 0), Row(PosUnit, 0, 1, 3, 0), Row(0, 0, 0, 0, 2),
     Row(0, PosUnit, 0, 0, 0)}
ExtendTimesteps == {1, 2}
ExtendMaxTimes == {0, 3, 6}

ExtendInit ==
    /\ arith = "real"
    /\ table \in {TableOf(rows) : rows \in SeqsUpTo(ExtendRows, MaxExtendRows)}
    /\ init_poslocTP = <<0, 0>>
    /\ start_time \in SweepStartTimes
    /\ timestep \in ExtendTimesteps
    /\ s = PosSweep("posid")
    /\ q = PosSweep("posid")
    /\ phase = "new"
    /\ ext = NoExtend
    /\ ClassifyIdle
    /\ DriverIdle
    /\ PolyIdle
    /\ RegistryIdle

\* sweep.extend(dt, max_time), on the exact sweep, on the quantized one, or on
\* a sweep already extended
Extend ==
    /\ phase \in {"exact", "quantized", "extended"}
    /\ ext.calls < MaxExtends
    /\ \E dt \in ExtendTimesteps, max_time \in ExtendMaxTimes :
           LET self == CASE phase = "exact" -> s
                         [] phase = "quantized" -> q
                         [] OTHER -> ext.after
           IN  ext' = [calls |-> ext.calls + 1, timestep |-> dt, max_time |-> max_time,
                       before |-> self, after |-> extend(arith, self, dt, max_time)]
    /\ phase' = "extended"
    /\ UNCHANGED <<arith, table, init_poslocTP, start_time, timestep, s, q>>
    /\ UNCHANGED <<collider, classifyVars, driverVars, polyVars, registryVars>>

ExtendNext == FillExact \/ Quantize \/ Extend

ExtendSpec == ExtendInit /\ [][ExtendNext]_vars

\* the sweeps that exist in a state
Built ==
    (IF phase \in {"new", "raised", "idle"} THEN {} ELSE {s})
    \cup (IF phase = "quantized" THEN {q} ELSE {})
    \cup (IF ext.calls > 0 THEN {ext.before, ext.after} ELSE {})

\* C11: after any sequence of fill_exact, quantize and extend the cached
\* was_moving list has the length of time and of tp, was_moving[0] is false,
\* and for k >= 1 was_moving[k] is true iff tp[k] differs from tp[k-1] in
\* theta or in phi.
C11_WasMovingConsistent ==
    \A sw \in Built :
        /\ Len(sw.was_moving_cached) = Len(sw.time)
        /\ Len(sw.tp) = Len(sw.time)
        /\ ~sw.was_moving_cached[1]
        /\ \A k \in 1..(Len(sw.time) - 1) :
               sw.was_moving_cached[k + 1] <=> sw.tp[k + 1] # sw.tp[k]

\* a quantized sweep that moves in theta alone and in phi alone was extended
\* twice, samples appended each time
C11_Witness ==
    /\ phase = "extended"
    /\ ext.calls = 2
    /\ Len(ext.after.time) > Len(ext.before.time)
    /\ Len(ext.before.time) > Len(s.time)
    /\ \E k \in 1..(Len(s.tp) - 1) : s.tp[k + 1][1] # s.tp[k][1] /\ s.tp[k + 1][2] = s.tp[k][2]
    /\ \E k \in 1..(Len(s.tp) - 1) : s.tp[k + 1][2] # s.tp[k][2] /\ s.tp[k + 1][1] = s.tp[k][1]

\* C12: extend(dt, max_time) appends only samples at the pose that was last
\* before the call, was_moving false on each, dt apart, and only until the
\* trace reaches max_time: afterwards time[-1] >= max_time and
\* time[-1] - dt < max_time.
C12_ExtendReachesMaxTime ==
    ext.calls > 0 =>
        LET n0 == Len(ext.before.time)
            n1 == Len(ext.after.time)
        IN  /\ n1 >= n0
            /\ SubSeq(ext.after.time, 1, n0) = ext.before.time
            /\ SubSeq(ext.after.tp, 1, n0) = ext.before.tp
            /\ \A k \in (n0 + 1)..n1 :
                   /\ ext.after.tp[k] = Last(ext.before.tp)
                   /\ ~ext.after.was_moving_cached[k]
                   /\ ext.after.time[k] = ext.after.time[k - 1] + ext.timestep
            /\ Last(ext.after.time) >= ext.max_time
            /\ Last(ext.after.time) - ext.timestep < ext.max_time

-----------------------------------------------------------------------------
(* fill_exact on a table whose lists are not all nrows long *)

TableLists == {"dT", "dP", "prepause", "move_time", "postpause"}

\* the table with one entry more, or one entry fewer, in one of its lists
Lengthened(tbl, list) == [tbl EXCEPT ![list] = Append(@, 1)]
Shortened(tbl, list) == [tbl EXCEPT ![list] = SubSeq(@, 1, Len(@) - 1)]

RaggedTables ==
    LET even == {TableOf(rows) : rows \in SeqsUpTo(ExtendRows, MaxRaggedRows)}
    IN  even
        \cup {[tbl EXCEPT !.nrows = @ + 1] : tbl \in even}
        \cup {[tbl EXCEPT !.nrows = @ - 1] : tbl \in {u \in even : u.nrows > 0}}
        \cup {Lengthened(tbl, list) : tbl \in even, list \in TableLists}
        \cup {Shortened(tbl, list) : tbl \in {u \in even : u.nrows > 0}, list \in TableLists}

\* every list of the table has nrows entries
EvenTable(tbl) == \A list \in TableLists : Len(tbl[list]) = tbl.nrows

RaggedInit ==
    /\ arith = "real"
    /\ table \in RaggedTables
    /\ init_poslocTP = <<0, 0>>
    /\ start_time = 0
    /\ timestep = 1
    /\ s = PosSweep("posid")
    /\ q = PosSweep("posid")
    /\ phase = "new"
    /\ ext = NoExtend
    /\ ClassifyIdle
    /\ DriverIdle
    /\ PolyIdle
    /\ RegistryIdle

RaggedSpec == RaggedInit /\ [][SweepNext]_vars

\* C13: fill_exact fails on a table whose lists are not all of length nrows,
\* leaving time, tp and was_moving of the sweep as they were; it never builds
\* a trace from such a table.
C13_RaggedTableRejected ==
    (phase # "new" /\ ~EvenTable(table)) =>
        /\ phase = "raised"
        /\ s = PosSweep("posid")

-----------------------------------------------------------------------------
(* One call of a spatial classifier *)

ClassifyPhis == {-PosUnit, 0, PosUnit}
\* (PHI_EO, PHI_EI) of the configuration file
EnvelopeAngles == {<<0, PosUnit>>, <<0, 0>>, <<PosUnit, 0>>}
Reaches == {Never, Always}

\* every iteration order of every subset of the fixed cases
FixedCaseOrders ==
    {<<>>, <<case_PTL>>, <<case_GFA>>, <<case_PTL, case_GFA>>, <<case_GFA, case_PTL>>}

ClassifyInit ==
    /\ SweepIdle
    /\ DriverIdle
    /\ PolyIdle
    /\ RegistryIdle
    /\ verdict = NoVerdict
    /\ poslocTP_A \in {<<0, p>> : p \in ClassifyPhis}
    /\ \/ /\ call = "between"
          /\ poslocTP_B \in {<<0, p>> : p \in ClassifyPhis}
          /\ use_phi_arc = FALSE
          /\ \E e \in EnvelopeAngles, retracted \in SUBSET Posids,
                r2 \in Reaches, r3 \in [Posids -> Reaches], r4 \in [Posids -> Reaches] :
                collider = Collider(1, e[1], e[2], retracted, NoFixed,
                               Geometry(OnA(0), OnA(0), r2, r3, r4,
                                        [c \in FixedCases |-> Never], {}))
       \/ /\ call = "fixed"
          /\ poslocTP_B = <<0, 0>>
          /\ use_phi_arc \in BOOLEAN
          /\ \E order \in FixedCaseOrders, rf \in [FixedCases -> Reaches],
                arcs \in SUBSET FixedCases :
                collider = Collider(1, 0, PosUnit, {}, [p \in Posids |-> order],
                               Geometry(OnA(0), OnA(0), Never, OnA(Never), OnA(Never),
                                        rf, arcs))

\* self.spatial_collision_between_positioners('A', 'B', poslocTP_A, poslocTP_B)
ClassifyBetween ==
    /\ call = "between"
    /\ verdict = NoVerdict
    /\ verdict' = spatial_collision_between_positioners(collider, "A", "B",
                                                        poslocTP_A, poslocTP_B)
    /\ UNCHANGED <<sweepVars, extendVars, collider, call, poslocTP_A, poslocTP_B, use_phi_arc>>
    /\ UNCHANGED <<driverVars, polyVars, registryVars>>

\* self.spatial_collision_with_fixed('A', poslocTP_A, use_phi_arc)
ClassifyFixed ==
    /\ call = "fixed"
    /\ verdict = NoVerdict
    /\ verdict' = spatial_collision_with_fixed(collider, "A", poslocTP_A, use_phi_arc)
    /\ UNCHANGED <<sweepVars, extendVars, collider, call, poslocTP_A, poslocTP_B, use_phi_arc>>
    /\ UNCHANGED <<driverVars, polyVars, registryVars>>

ClassifyNext == ClassifyBetween \/ ClassifyFixed

ClassifySpec == ClassifyInit /\ [][ClassifyNext]_vars

SeqRange(seq) == {seq[i] : i \in 1..Len(seq)}

\* the decision table of the classifier: its rows in order, each with the
\* condition under which it applies and the case it gives
DecisionRows(self, tpA, tpB) ==
    LET A_ret     == "A" \in self.classified_as_retracted
        B_ret     == "B" \in self.classified_as_retracted
        A_within  == tpA[2] >= self.Eo_phi \/ A_ret
        B_within  == tpB[2] >= self.Eo_phi \/ B_ret
        IV_AB     == case_IV_collision(self, "A", "B", tpA)
        IV_BA     == case_IV_collision(self, "B", "A", tpB)
        III_AB    == case_III_collision(self, "A", "B", tpA, tpB[1])
        III_BA    == case_III_collision(self, "B", "A", tpB, tpA[1])
        II_AB     == case_II_collision(self, "A", "B", tpA, tpB)
    IN  << [applies |-> A_within /\ B_within, gives |-> case_I, tests |-> 0],
           [applies |-> ~A_within /\ B_ret,
            gives |-> IF IV_AB THEN case_IV ELSE case_I, tests |-> 1],
           [applies |-> ~B_within /\ A_ret,
            gives |-> IF IV_BA THEN case_IV ELSE case_I, tests |-> 1],
           [applies |-> tpA[2] < self.Eo_phi /\ tpB[2] >= self.Ei_phi,
            gives |-> IF III_AB THEN case_III ELSE case_I, tests |-> 1],
           [applies |-> tpB[2] < self.Eo_phi /\ tpA[2] >= self.Ei_phi,
            gives |-> IF III_BA THEN case_III ELSE case_I, tests |-> 1],
           [applies |-> TRUE,
            gives |-> CASE III_AB -> case_III
                        [] ~III_AB /\ III_BA -> case_III
                        [] ~III_AB /\ ~III_BA /\ II_AB -> case_II
                        [] OTHER -> case_I,
            tests |-> CASE III_AB -> 1
                        [] ~III_AB /\ III_BA -> 2
                        [] OTHER -> 3] >>

FirstRow(rows) == MinOf({k \in 1..Len(rows) : rows[k].applies})

\* C5: the pairwise classifier returns the case of the first applicable row of
\* the decision table (rows 1 to 6 in order), and makes no polygon test when
\* both positioners are within Eo.
C5_DecisionTable ==
    (call = "between" /\ verdict # NoVerdict) =>
        LET rows == DecisionRows(collider, poslocTP_A, poslocTP_B)
            k    == FirstRow(rows)
        IN  /\ verdict.case = rows[k].gives
            /\ Len(verdict.tests) = rows[k].tests
            /\ k = 1 => verdict.case = case_I /\ verdict.tests = NoTests
            /\ k \in {2, 3} => verdict.case \in {case_IV, case_I}
            /\ k \in {4, 5} => verdict.case \in {case_III, case_I}

\* the last row decided, by its last test: both arms out of Eo, no arm on a
\* body, arm on arm
C5_Witness ==
    /\ call = "between"
    /\ verdict.case = case_II
    /\ Len(verdict.tests) = 3
    /\ FirstRow(DecisionRows(collider, poslocTP_A, poslocTP_B)) = 6

\* C6: the fixed classifier returns I iff the placed polygon collides with none
\* of the envelopes of fixed_neighbor_cases[A]; otherwise it returns one of
\* those it collides with; only envelopes of fixed_neighbor_cases[A] are
\* tested, and none when that set is empty.
C6_FixedClassifier ==
    (call = "fixed" /\ verdict # NoVerdict) =>
        LET cases == SeqRange(collider.fixed_neighbor_cases["A"])
            hits  == {c \in cases :
                         fixed_collision(collider, "A", poslocTP_A, use_phi_arc, c)}
        IN  /\ verdict.case = case_I <=> hits = {}
            /\ verdict.case # case_I => verdict.case \in hits
            /\ SeqRange(verdict.tests) \subseteq cases
            /\ cases = {} => verdict.tests = NoTests

\* the arm collides with one envelope of fixed_neighbor_cases[A] and not with
\* the other, tested first; the other envelope collides but is not listed
C6_Witness ==
    /\ call = "fixed"
    /\ ~use_phi_arc
    /\ verdict.case = case_GFA
    /\ verdict.tests = <<case_PTL, case_GFA>>

\* the positioner other than posid
OtherPosid(posid) == IF posid = "A" THEN "B" ELSE "A"
\* the pose handed over for posid
PoseOf(posid) == IF posid = "A" THEN poslocTP_A ELSE poslocTP_B

BetweenAnswered == call = "between" /\ verdict # NoVerdict

\* C29: with A or B classified as retracted the pairwise classifier returns
\* I or IV; IV only for the arm of the other positioner, which is then not
\* classified as retracted, has phi below PHI_EO and is found by
\* _case_IV_collision to reach into the retracted one's circle; with both
\* classified as retracted it returns I.
C29_RetractedNeverStrikes ==
    (BetweenAnswered /\ collider.classified_as_retracted # {})
    => /\ verdict.case \in {case_I, case_IV}
       /\ verdict.case = case_IV
           => \E r \in collider.classified_as_retracted :
               LET arm == OtherPosid(r)
               IN  /\ arm \notin collider.classified_as_retracted
                   /\ PoseOf(arm)[2] < collider.Eo_phi
                   /\ case_IV_collision(collider, arm, r, PoseOf(arm))
                   /\ verdict.tests = <<Test("IV", arm, r)>>
       /\ collider.classified_as_retracted = Posids => verdict.case = case_I
       /\ \A k \in 1..Len(verdict.tests) :
            verdict.tests[k].arm \notin collider.classified_as_retracted

\* A is classified as retracted and the arm of B, extended, strikes its circle
C29_Witness ==
    /\ BetweenAnswered
    /\ collider.classified_as_retracted = {"A"}
    /\ poslocTP_A[2] < collider.Eo_phi
    /\ poslocTP_B[2] < collider.Eo_phi
    /\ verdict.case = case_IV

\* C30: with PHI_EI >= PHI_EO the pairwise classifier returns for (A, B,
\* tpA, tpB) the case it returns for (B, A, tpB, tpA).
C30_ArgumentOrder ==
    (BetweenAnswered /\ collider.Ei_phi >= collider.Eo_phi)
    => verdict.case
        = spatial_collision_between_positioners(collider, "B", "A",
                                                poslocTP_B, poslocTP_A).case

\* both arms are out, only the arm of B reaches a body, and the call with A
\* first returned case III
C30_Witness ==
    /\ BetweenAnswered
    /\ collider.Ei_phi >= collider.Eo_phi
    /\ collider.classified_as_retracted = {}
    /\ poslocTP_A[2] < collider.Eo_phi
    /\ poslocTP_B[2] < collider.Eo_phi
    /\ ~case_III_collision(collider, "A", "B", poslocTP_A, poslocTP_B[1])
    /\ case_III_collision(collider, "B", "A", poslocTP_B, poslocTP_A[1])
    /\ verdict.case = case_III

-----------------------------------------------------------------------------
(* One call of spacetime_collision *)

\* rows of tableA: a phi move of two steps, a theta step, a pause
DriverRowsA ==
    {Row(0, -2 * PosUnit, 0, 2, 0), Row(PosUnit, 0, 0, 1, 0), Row(0, 0, 1, 0, 0)}

\* rows of tableB: a phi step, a pause
DriverRowsB == {Row(0, -PosUnit, 0, 1, 0), Row(0, 0, 1, 0, 0)}

DriverInitsA == {<<0, 0>>, <<0, -PosUnit>>}
Skips == {0, 1, 2}

\* colliders of a two-positioner call; Eo_phi = 0, so an arm is outside its
\* Eo circle as soon as phi is below 0
PosPosColliders ==
    {\* arm of A reaches the body of B at phi <= -2, the arms meet at phi sum <= -3
     Collider(1, 0, PosUnit, {}, NoFixed,
              Geometry(OnA(0), OnA(0), -3 * PosUnit, [A |-> -2 * PosUnit, B |-> Never],
                       OnA(Never), [c \in FixedCases |-> Never], {})),
     \* B classified as retracted, arm of A reaches the Eo circle of B at phi <= -2
     Collider(1, 0, PosUnit, {"B"}, NoFixed,
              Geometry(OnA(0), OnA(0), Never, OnA(Never), [A |-> -2 * PosUnit, B |-> Never],
                       [c \in FixedCases |-> Never], {})),
     \* A classified as retracted, arm of B reaches the Eo circle of A at phi <= -1
     Collider(1, 0, PosUnit, {"A"}, NoFixed,
              Geometry(OnA(0), OnA(0), Never, OnA(Never), [A |-> Never, B |-> -PosUnit],
                       [c \in FixedCases |-> Never], {})),
     \* every polygon test succeeds
     Collider(1, 0, PosUnit, {}, NoFixed,
              Geometry(OnA(0), OnA(0), Always, OnA(Always), OnA(Always),
                       [c \in FixedCases |-> Always], {})),
     \* the arm of A touches only once theta has turned to it
     Collider(1, 0, PosUnit, {}, NoFixed,
              Geometry([A |-> PosUnit, B |-> 0], OnA(0), Never, [A |-> Always, B |-> Never],
                       OnA(Never), [c \in FixedCases |-> Never], {})),
     ClearCollider}

\* colliders of a call against the fixed envelopes
FixedColliders ==
    {Collider(1, 0, PosUnit, {}, [A |-> <<case_PTL, case_GFA>>, B |-> <<>>],
              Geometry(OnA(0), OnA(0), Never, OnA(Never), OnA(Never),
                       [c \in FixedCases |-> IF c = case_PTL THEN Never ELSE -2 * PosUnit], {})),
     Collider(1, 0, PosUnit, {}, [A |-> <<case_GFA, case_PTL>>, B |-> <<>>],
              Geometry(OnA(0), OnA(0), Never, OnA(Never), OnA(Never),
                       [c \in FixedCases |-> -PosUnit], {})),
     Collider(1, 0, PosUnit, {}, [A |-> <<case_PTL>>, B |-> <<>>],
              Geometry([A |-> PosUnit, B |-> 0], OnA(0), Never, OnA(Never), OnA(Never),
                       [c \in FixedCases |-> Always], {})),
     Collider(1, 0, PosUnit, {}, NoFixed,
              Geometry(OnA(0), OnA(0), Never, OnA(Never), OnA(Never),
                       [c \in FixedCases |-> Always], {}))}

DriverTables(rows) == {TableOf(r) : r \in SeqsUpTo(rows, MaxDriverRows)}

\* the arguments of the call
Init ==
    /\ SweepIdle
    /\ PolyIdle
    /\ RegistryIdle
    /\ call = "none"
    /\ poslocTP_A = <<0, 0>>
    /\ poslocTP_B = <<0, 0>>
    /\ use_phi_arc = FALSE
    /\ verdict = NoVerdict
    /\ pc = "start"
    /\ pospos \in BOOLEAN
    /\ skip \in Skips
    /\ IF pospos
       THEN /\ collider \in PosPosColliders
            /\ init_poslocTPs \in {<<a, <<0, 0>>>> : a \in DriverInitsA}
            /\ tables \in {<<a, b>> : a \in DriverTables(DriverRowsA),
                                      b \in DriverTables(DriverRowsB)}
       ELSE /\ collider \in FixedColliders
            /\ init_poslocTPs \in {<<a>> : a \in DriverInitsA}
            /\ tables \in {<<a>> : a \in DriverTables(DriverRowsA)}
    /\ sweeps = <<>>
    /\ steps_remaining = <<>>
    /\ step = <<>>
    /\ checks = <<>>
    /\ passes = 0

\* the set-up and the fill_exact / quantize loop
Prepare ==
    /\ pc = "start"
    /\ LET n   == IF pospos THEN 2 ELSE 1
           sws == prepared_sweeps(collider, n, init_poslocTPs, tables)
       IN  /\ sweeps' = sws
           /\ steps_remaining' = [k \in 1..n |-> Len(sws[k].time)]
           /\ step' = [k \in 1..n |-> 0]
    /\ pc' = "loop"
    /\ passes' = 0
    /\ UNCHANGED <<pospos, init_poslocTPs, tables, skip, checks>>
    /\ UNCHANGED <<sweepVars, extendVars, collider, classifyVars, polyVars, registryVars>>

\* one pass of "while any(steps_remaining)"
Iterate ==
    /\ pc = "loop"
    /\ any(steps_remaining)
    /\ LET r == loop_body(collider, pospos, skip, sweeps, steps_remaining, step)
       IN  /\ sweeps' = r.sweeps
           /\ steps_remaining' = r.steps_remaining
           /\ step' = r.step
           /\ checks' = IF r.checked THEN Append(checks, step) ELSE checks
    /\ passes' = passes + 1
    /\ UNCHANGED <<pc, pospos, init_poslocTPs, tables, skip>>
    /\ UNCHANGED <<sweepVars, extendVars, collider, classifyVars, polyVars, registryVars>>

\* return sweeps
Return ==
    /\ pc = "loop"
    /\ ~any(steps_remaining)
    /\ pc' = "done"
    /\ UNCHANGED <<pospos, init_poslocTPs, tables, skip, sweeps, steps_remaining, step, checks,
                   passes>>
    /\ UNCHANGED <<sweepVars, extendVars, collider, classifyVars, polyVars, registryVars>>

Next == Prepare \/ Iterate \/ Return

Spec == Init /\ [][Next]_vars

-----------------------------------------------------------------------------
(* Properties of spacetime_collision *)

Participants == 1..Len(sweeps)

\* the pose of a sweep at loop step k: its final pose once it is exhausted
PoseAt(sw, k) == At(sw.tp, IF k < Len(sw.tp) THEN k ELSE Len(sw.tp) - 1)

\* the spatial classifier on the participants' poses at loop step k
CaseAt(k) ==
    IF pospos
    THEN spatial_collision_between_positioners(collider, "A", "B",
             PoseAt(sweeps[1], k), PoseAt(sweeps[2], k)).case
    ELSE spatial_collision_with_fixed(collider, "A", PoseAt(sweeps[1], k), FALSE).case

LoopSteps == 0..(MaxOf({Len(sweeps[n].time) : n \in Participants}) - 1)
CollidingSteps == {k \in LoopSteps : CaseAt(k) # case_I}

\* C1: in two-positioner mode, when a collision is reported both sweeps carry
\* the same collision_time and collision_idx, and on each sweep collision_idx
\* is an index of its own time list with time[collision_idx] = collision_time,
\* whatever the lengths of the two sweeps.
C1_CollisionIndexValid ==
    (pc = "done" /\ pospos /\ sweeps[1].collision_case # case_I) =>
        /\ sweeps[1].collision_time = sweeps[2].collision_time
        /\ sweeps[1].collision_idx = sweeps[2].collision_idx
        /\ \A n \in Participants :
               /\ sweeps[n].collision_idx \in 0..(Len(sweeps[n].time) - 1)
               /\ At(sweeps[n].time, sweeps[n].collision_idx) = sweeps[n].collision_time

\* C2: with skip = 0 and initial poses that do not collide, the reported
\* collision_idx is the smallest loop step at which the spatial classifier on
\* the participants' poses gives a case other than I, and the reported case is
\* the classifier's; when there is no such step every sweep has case I.
C2_EarliestCollision ==
    (pc = "done" /\ skip = 0 /\ CaseAt(0) = case_I) =>
        IF CollidingSteps = {}
        THEN \A n \in Participants : sweeps[n].collision_case = case_I
        ELSE \A n \in Participants :
                 /\ sweeps[n].collision_idx = MinOf(CollidingSteps)
                 /\ sweeps[n].collision_case = CaseAt(MinOf(CollidingSteps))

\* a collision was found after a loop in which nobody moved, on a step at
\* which only one of two participants moved, the other being exhausted
C2_Witness ==
    /\ pc = "done"
    /\ skip = 0
    /\ pospos
    /\ CaseAt(0) = case_I
    /\ sweeps[1].collision_case # case_I
    /\ sweeps[1].collision_idx >= 3
    /\ Len(checks) < sweeps[1].collision_idx
    /\ Len(sweeps[2].time) <= sweeps[1].collision_idx

\* C3: the classifier is never called while every participant is at step 0,
\* no returned sweep has collision_idx = 0, and a call with skip = 0 returns
\* the sweeps of the same call with skip = 1 (and conversely).
C3_StepZeroSkipped ==
    /\ \A c \in 1..Len(checks) : \E n \in 1..Len(checks[c]) : checks[c][n] # 0
    /\ pc = "done" =>
           /\ \A n \in Participants : sweeps[n].collision_idx # 0
           /\ skip \in {0, 1} =>
                  sweeps = spacetime_collision(collider, pospos, init_poslocTPs,
                                               tables, 1 - skip)

\* a call with skip = 0 whose initial poses already overlap has returned, the
\* collision reported at step 1
C3_Witness ==
    /\ pc = "done"
    /\ skip = 0
    /\ CaseAt(0) # case_I
    /\ checks # <<>>
    /\ \A n \in Participants : sweeps[n].collision_idx = 1

\* C4: on every returned sweep, collision_case = I iff collision_time is
\* infinite iff collision_idx is None iff collision_neighbor is empty; in
\* two-positioner mode both sweeps have the same case and, on a collision,
\* each names the other's posid; in fixed mode the neighbour is 'PTL' for case
\* PTL and 'GFA' for case GFA, collision_idx is the step that was checked and
\* collision_time = time[collision_idx].
C4_FieldsConsistent ==
    pc = "done" =>
        /\ \A n \in Participants :
               LET none == sweeps[n].collision_case = case_I
               IN  /\ none <=> sweeps[n].collision_time = math_inf
                   /\ none <=> sweeps[n].collision_idx = None
                   /\ none <=> sweeps[n].collision_neighbor = ""
        /\ pospos =>
               /\ sweeps[1].collision_case = sweeps[2].collision_case
               /\ sweeps[1].collision_case # case_I =>
                      /\ sweeps[1].collision_neighbor = sweeps[2].posid
                      /\ sweeps[2].collision_neighbor = sweeps[1].posid
        /\ (~pospos /\ sweeps[1].collision_case # case_I) =>
               /\ sweeps[1].collision_case \in {case_PTL, case_GFA}
               /\ sweeps[1].collision_case = case_PTL => sweeps[1].collision_neighbor = "PTL"
               /\ sweeps[1].collision_case = case_GFA => sweeps[1].collision_neighbor = "GFA"
               /\ sweeps[1].collision_idx = Last(checks)[1]
               /\ sweeps[1].collision_time = At(sweeps[1].time, sweeps[1].collision_idx)

\* a fixed-mode call has returned a GFA collision found after several checks
C4_Witness ==
    /\ pc = "done"
    /\ ~pospos
    /\ sweeps[1].collision_case = case_GFA
    /\ sweeps[1].collision_neighbor = "GFA"
    /\ Len(checks) >= 2

\* C14: the while loop comes to its end: the passes made plus the largest
\* number of steps remaining never exceed the length of the longest sweep, so
\* the loop makes at most that many passes; and the pass that records a
\* collision is the last one: it leaves no step remaining, and no later step
\* is checked.
C14_DriverTerminates ==
    pc \in {"loop", "done"} =>
        /\ passes + MaxOf({steps_remaining[n] : n \in Participants})
               <= MaxOf({Len(sweeps[n].time) : n \in Participants})
        /\ (pc = "loop" /\ any(steps_remaining)) =>
               passes < MaxOf({Len(sweeps[n].time) : n \in Participants})
        /\ (\E n \in Participants : sweeps[n].collision_case # case_I) =>
               /\ ~any(steps_remaining)
               /\ \A n \in Participants :
                      /\ passes = sweeps[n].collision_idx + 1
                      /\ sweeps[n].collision_idx
                             = MaxOf({Last(checks)[k] : k \in Participants})

\* a call has returned a collision found before the end of the longest sweep
C14_Witness ==
    /\ pc = "done"
    /\ sweeps[1].collision_case # case_I
    /\ passes >= 2
    /\ passes < MaxOf({Len(sweeps[n].time) : n \in Participants})

\* C26: in one driver call every step index starts at 0 and is, while its
\* participant has steps remaining, the number of passes made (so it goes up
\* by 1 a pass and the participants move in lockstep); an exhausted
\* participant stays on its last sample, a halted one on the step of the
\* collision; no index passes len(time) - 1, and time, tp and
\* was_moving_cached all have that length; every check made took an
\* exhausted participant at its final sample.
C26_StepIndexes ==
    pc \in {"loop", "done"} =>
        LET collided == \E n \in Participants : sweeps[n].collision_case # case_I
        IN  /\ \A n \in Participants :
                LET length == Len(sweeps[n].time)
                    reached == IF collided THEN passes - 1 ELSE passes
                IN  /\ Len(sweeps[n].tp) = length
                    /\ Len(sweeps[n].was_moving_cached) = length
                    /\ 0 <= step[n] /\ step[n] <= length - 1
                    /\ passes = 0 => step[n] = 0
                    /\ steps_remaining[n] # 0 => step[n] = passes
                    /\ step[n] = IF reached < length - 1 THEN reached ELSE length - 1
            /\ \A n \in Participants, m \in Participants :
                (steps_remaining[n] # 0 /\ steps_remaining[m] # 0) => step[n] = step[m]
            /\ \A c \in 1..Len(checks) : \A n \in Participants, m \in Participants :
                /\ checks[c][n] <= Len(sweeps[n].time) - 1
                /\ checks[c][n] < checks[c][m] => checks[c][n] = Len(sweeps[n].time) - 1

\* the shorter sweep is exhausted and waits on its last sample while the
\* longer one is two steps further, and a check was made there
C26_Witness ==
    /\ pc = "loop"
    /\ Len(sweeps) = 2
    /\ \E n \in Participants, m \in Participants :
        /\ steps_remaining[n] = 0
        /\ steps_remaining[m] # 0
        /\ step[n] = Len(sweeps[n].time) - 1
        /\ step[m] >= step[n] + 2
        /\ Len(checks) > 0
        /\ Last(checks)[n] < Last(checks)[m]

-----------------------------------------------------------------------------
(* Polygons, built, transformed and tested as test() does *)

\* point lists [x list, y list]: a triangle; the triangle, closed already; a
\* triangle whose box shares the line x = 4 with the first; a bar; a triangle
\* far off; three points on a line; one point; no point; lists that differ
\* in length
PointLists ==
    { <<<<0, 4, 0>>, <<0, 0, 3>>>>,
      <<<<0, 4, 0, 0>>, <<0, 0, 3, 0>>>>,
      <<<<4, 8, 4>>, <<-1, -1, 2>>>>,
      <<<<-5, 5>>, <<1, 1>>>>,
      <<<<10, 12, 10>>, <<10, 10, 12>>>>,
      <<<<0, 2, 4>>, <<0, 0, 0>>>>,
      <<<<3>>, <<4>>>>,
      <<<<>>, <<>>>>,
      <<<<0, 4>>, <<0>>>>,
      <<<<-20, 20, 20, -20>>, <<-20, -20, 20, 20>>>> }
\* the arguments [points, close_polygon] of the constructions; close_polygon
\* is True unless given
Constructions ==
    {<<points, TRUE>> : points \in PointLists}
    \cup {<<points, FALSE>> : points \in
            {<<<<0, 4, 0>>, <<0, 0, 3>>>>, <<<<-5, 5>>, <<1, 1>>>>, <<<<>>, <<>>>>}}

\* what a read of fresh memory can give
Uninitialized == {0, 7}

\* [x, y, radius]
Circles == {<<0, 0, 2>>, <<8, 0, 4>>, <<0, 1, 5>>}

TransformCalls ==
    {[op |-> "copy"]}
    \cup {[op |-> "rotated", angle |-> 90]}
    \cup {[op |-> "translated", x |-> -4, y |-> 2]}
    \cup {[op |-> "expanded_radially", dR |-> 5]}
    \cup {[op |-> "expanded_x", left_shift |-> 1, right_shift |-> 2]}
    \cup {[op |-> "expanded_angularly", dA |-> 90]}
    \cup {[op |-> "place_as_phi_arm", theta |-> 90, phi |-> -90, x0 |-> 1, y0 |-> 0, r1 |-> 3]}
    \cup {[op |-> "place_as_central_body", theta |-> 180, x0 |-> 4, y0 |-> 0]}

\* the call c made on the polygon self
Transformed(self, c) ==
    CASE c.op = "copy" -> copy(self)
      [] c.op = "rotated" -> rotated(self, c.angle)
      [] c.op = "translated" -> translated(self, c.x, c.y)
      [] c.op = "expanded_radially" -> expanded_radially(self, c.dR)
      [] c.op = "expanded_x" -> expanded_x(self, c.left_shift, c.right_shift)
      [] c.op = "expanded_angularly" -> expanded_angularly(self, c.dA)
      [] c.op = "place_as_phi_arm" -> place_as_phi_arm(self, c.theta, c.phi, c.x0, c.y0, c.r1)
      [] c.op = "place_as_central_body" -> place_as_central_body(self, c.theta, c.x0, c.y0)

\* the vertices of self are where expanded_radially(dR) is whole-numbered
WholeRadii(self, dR) ==
    \A i \in 1..self.n_pts :
        LET r == Radius(self.x[i], self.y[i])
        IN  /\ r * r = self.x[i] * self.x[i] + self.y[i] * self.y[i]
            /\ r > 0 => (dR * self.x[i]) % r = 0 /\ (dR * self.y[i]) % r = 0

\* the questions a run ends on
Questions == {"collides_with", "collides_with_circle", "_case_II_collision",
              "spatial_collision_with_fixed", "test"}
\* a run builds polygons and ends on one question about them
Building == poly_call.op \notin Questions

PolyInit ==
    /\ SweepIdle
    /\ ClassifyIdle
    /\ DriverIdle
    /\ PolyIdle
    /\ RegistryIdle

\* PosPoly(points, close_polygon): __cinit__ raises nothing, the object exists
\* whatever it did
Construct ==
    /\ Building
    /\ Len(polys) < MaxPolys
    /\ \E c \in Constructions, u \in Uninitialized :
        /\ polys' = Append(polys, PosPoly_cinit(c[1], c[2], u))
        /\ poly_call' = [op |-> "PosPoly", points |-> c[1], close_polygon |-> c[2],
                         raised |-> FALSE, new |-> Len(polys) + 1]
    /\ UNCHANGED <<sweepVars, extendVars, collider, classifyVars, driverVars,
                   registryVars>>

\* new = polys[i].<transform>(...)
Transform ==
    /\ Building
    /\ Len(polys) < MaxPolys
    /\ \E i \in 1..Len(polys), c \in TransformCalls :
        LET r == Transformed(polys[i], c)
        IN  /\ c.op = "expanded_radially" => WholeRadii(polys[i], c.dR)
            /\ polys' = IF r.raised THEN [polys EXCEPT ![i] = r.self]
                        ELSE Append([polys EXCEPT ![i] = r.self], r.new)
            /\ poly_call' = [op |-> c.op, self |-> i, before |-> polys[i], raised |-> r.raised,
                             new |-> IF r.raised THEN 0 ELSE Len(polys) + 1]
    /\ UNCHANGED <<sweepVars, extendVars, collider, classifyVars, driverVars,
                   registryVars>>

\* polys[i].collides_with(polys[j]).  Where _polygons_collide runs past an
\* array it returns either value or the process is killed.
CollidesWith ==
    /\ Building
    /\ \E i \in 1..Len(polys), j \in 1..Len(polys) :
        \E killed \in BOOLEAN, returned \in BOOLEAN :
            /\ IF collides_with_overruns(polys[i], polys[j])
               THEN killed => ~returned
               ELSE ~killed /\ returned = collides_with(polys[i], polys[j])
            /\ poly_call' = [op |-> "collides_with", self |-> i, other |-> j,
                             before |-> polys, killed |-> killed, returned |-> returned]
    /\ UNCHANGED polys
    /\ UNCHANGED <<sweepVars, extendVars, collider, classifyVars, driverVars,
                   registryVars>>

\* polys[i].collides_with_circle(x, y, radius)
CollidesWithCircle ==
    /\ Building
    /\ \E i \in 1..Len(polys), c \in Circles :
        poly_call' = [op |-> "collides_with_circle", self |-> i, circle |-> c,
                      before |-> polys,
                      returned |-> collides_with_circle(polys[i], c[1], c[2], c[3])]
    /\ UNCHANGED polys
    /\ UNCHANGED <<sweepVars, extendVars, collider, classifyVars, driverVars,
                   registryVars>>

\* the calibration of the two positioners whose keepouts are placed
Calibration == <<[x0 |-> 0, y0 |-> 0, R1 |-> 3], [x0 |-> 6, y0 |-> 0, R1 |-> 3]>>
\* [poslocTP of positioner 1, poslocTP of positioner 2]
PlacedTPs == {<<<<0, 0>>, <<180, 0>>>>, <<<<90, -90>>, <<0, 0>>>>}

\* PosCollider.place_phi_arm, on the polygon stored as keepouts_P[posid]
place_phi_arm(keepout_P, posid, poslocTP) ==
    place_as_phi_arm(keepout_P, poslocTP[1], poslocTP[2],
                     Calibration[posid].x0, Calibration[posid].y0, Calibration[posid].R1)

\* PosCollider._case_II_collision, polys[i] and polys[j] the stored phi arm
\* keepouts of positioners 1 and 2.  The placed polygons are locals.
CaseII ==
    /\ Building
    /\ \E i \in 1..Len(polys), j \in 1..Len(polys), tp \in PlacedTPs :
        LET poly1 == place_phi_arm(polys[i], 1, tp[1])
            after1 == [polys EXCEPT ![i] = poly1.self]
            poly2 == place_phi_arm(after1[j], 2, tp[2])
            after2 == [after1 EXCEPT ![j] = poly2.self]
        IN  IF poly1.raised
            THEN /\ polys' = after1
                 /\ poly_call' = [op |-> "_case_II_collision", before |-> polys,
                                  raised |-> TRUE, returned |-> FALSE]
            ELSE /\ polys' = after2
                 /\ poly_call' = [op |-> "_case_II_collision", before |-> polys,
                                  raised |-> poly2.raised,
                                  returned |-> ~poly2.raised /\ collides_with(poly1.new, poly2.new)]
    /\ UNCHANGED <<sweepVars, extendVars, collider, classifyVars, driverVars,
                   registryVars>>

\* PosCollider.spatial_collision_with_fixed of positioner 1, polys[i] its
\* stored phi arm keepout and polys[j] the one fixed keepout, PTL, of its
\* fixed_neighbor_cases
WithFixed ==
    /\ Building
    /\ \E i \in 1..Len(polys), j \in 1..Len(polys), tp \in PlacedTPs :
        LET poly1 == place_phi_arm(polys[i], 1, tp[1])
            poly2 == polys[j]
        IN  /\ i # j
            /\ ~poly1.raised
            /\ ~collides_with_overruns(poly1.new, poly2)
            /\ polys' = [polys EXCEPT ![i] = poly1.self]
            /\ poly_call' = [op |-> "spatial_collision_with_fixed", before |-> polys,
                             poly1 |-> poly1.new, poly2 |-> poly2,
                             returned |-> IF collides_with(poly1.new, poly2)
                                          THEN case_PTL ELSE case_I]
    /\ UNCHANGED <<sweepVars, extendVars, collider, classifyVars, driverVars,
                   registryVars>>

\* [t, p, x, y, r1] of test()
Placements == {<<90, -90, 1, 0, 3>>, <<180, 90, 10, -4, 3>>}

\* the end of test(): a = polys[i] rotated, translated, rotated, translated
\* and b = polys[i].place_as_phi_arm(t, p, x, y, r1)
TestPlacement ==
    /\ Building
    /\ \E i \in 1..Len(polys), c \in Placements :
        LET a1 == rotated(polys[i], c[2])
            a2 == translated(a1.new, c[5], 0)
            a3 == rotated(a2.new, c[1])
            a4 == translated(a3.new, c[3], c[4])
            b  == place_as_phi_arm(a1.self, c[1], c[2], c[3], c[4], c[5])
        IN  /\ ~a1.raised
            /\ polys' = [polys EXCEPT ![i] = b.self]
            /\ poly_call' = [op |-> "test", self |-> i, before |-> polys, placement |-> c,
                             a |-> a4.new, b |-> b.new]
    /\ UNCHANGED <<sweepVars, extendVars, collider, classifyVars, driverVars,
                   registryVars>>

PolyNext ==
    \/ Construct \/ Transform \/ CollidesWith \/ CollidesWithCircle \/ CaseII
    \/ WithFixed \/ TestPlacement

PolySpec == PolyInit /\ [][PolyNext]_vars

\* C15: a polygon constructed with close_polygon true from a list of points
\* ends on a copy of its first point, and has one vertex more than the list
\* only when the list did not already end on its first point.
C15_ClosedOnce ==
    (poly_call.op = "PosPoly" /\ poly_call.close_polygon
        /\ Len(poly_call.points[1]) = Len(poly_call.points[2])
        /\ Len(poly_call.points[1]) > 0)
    => LET x == poly_call.points[1]
           y == poly_call.points[2]
           new == polys[poly_call.new]
           closed == x[1] = Last(x) /\ y[1] = Last(y)
       IN  /\ new.n_pts >= 1
           /\ Last(new.x) = x[1] /\ Last(new.y) = y[1]
           /\ new.n_pts = IF closed THEN Len(x) ELSE Len(x) + 1

\* C16: constructing a polygon from x and y lists of different lengths fails
\* with an error, and no polygon object results.
C16_MismatchRejected ==
    (poly_call.op = "PosPoly"
        /\ Len(poly_call.points[1]) # Len(poly_call.points[2]))
    => /\ poly_call.raised
       /\ Len(polys) < poly_call.new

TransformOps == {c.op : c \in TransformCalls}

\* C17: a transform of a polygon that has vertices returns a new polygon
\* with as many vertices and leaves the receiver as it was; collides_with
\* and collides_with_circle leave their operands as they were; and so does a
\* classifier call leave the stored keepouts it places.
C17_TransformsLeaveReceiver ==
    /\ poly_call.op \in TransformOps
        => /\ polys[poly_call.self] = poly_call.before
           /\ poly_call.before.n_pts >= 1
               => /\ ~poly_call.raised
                  /\ poly_call.new = Len(polys) /\ poly_call.new # poly_call.self
                  /\ polys[poly_call.new].n_pts = poly_call.before.n_pts
    /\ poly_call.op \in {"collides_with", "collides_with_circle", "_case_II_collision"}
        => polys = poly_call.before

\* a closed triangle was placed as a phi arm: the polygon returned is
\* another triangle, elsewhere
C17_Witness ==
    /\ poly_call.op = "place_as_phi_arm"
    /\ poly_call.before.n_pts = 4
    /\ ~poly_call.raised
    /\ polys[poly_call.new] # poly_call.before
    /\ polys[poly_call.new].n_pts = 4
    /\ polys[poly_call.self] = poly_call.before

\* the polygon ends on its first point and has three vertices not on a line
NonDegenerateClosed(poly) ==
    /\ poly.n_pts >= 4
    /\ Last(poly.x) = poly.x[1] /\ Last(poly.y) = poly.y[1]
    /\ \E i \in 1..poly.n_pts, j \in 1..poly.n_pts, k \in 1..poly.n_pts :
        (poly.x[j] - poly.x[i]) * (poly.y[k] - poly.y[i])
            # (poly.y[j] - poly.y[i]) * (poly.x[k] - poly.x[i])

\* the call answered was collides_with between two polygons that have vertices
OverlapAsked ==
    /\ poly_call.op = "collides_with"
    /\ polys[poly_call.self].n_pts >= 1
    /\ polys[poly_call.other].n_pts >= 1

\* C18: A.collides_with(A) is true for a closed polygon with three vertices
\* not on a line, and A.collides_with(B) = B.collides_with(A) for polygons
\* that have vertices.
C18_ReflexiveSymmetric ==
    OverlapAsked
    => LET A == polys[poly_call.self]
           B == polys[poly_call.other]
       IN  /\ ~poly_call.killed
           /\ poly_call.returned = collides_with(B, A)
           /\ (poly_call.self = poly_call.other /\ NonDegenerateClosed(A))
               => poly_call.returned

\* two different closed polygons were found to overlap
C18_Witness ==
    /\ OverlapAsked
    /\ poly_call.self # poly_call.other
    /\ NonDegenerateClosed(polys[poly_call.self])
    /\ NonDegenerateClosed(polys[poly_call.other])
    /\ polys[poly_call.self] # polys[poly_call.other]
    /\ poly_call.returned

\* every vertex of A is strictly left of, or strictly below, every vertex of
\* B, or the other way round
Separated(A, B) ==
    \/ \A i \in 1..A.n_pts, j \in 1..B.n_pts : A.x[i] < B.x[j]
    \/ \A i \in 1..A.n_pts, j \in 1..B.n_pts : A.y[i] < B.y[j]
    \/ \A i \in 1..A.n_pts, j \in 1..B.n_pts : B.x[j] < A.x[i]
    \/ \A i \in 1..A.n_pts, j \in 1..B.n_pts : B.y[j] < A.y[i]

\* C19: the bounding-box pre-check rejects exactly the pairs whose boxes are
\* strictly apart (boxes that touch pass), and collides_with returns what the
\* segment test alone returns.
C19_BoxCheckSound ==
    OverlapAsked
    => LET A == polys[poly_call.self]
           B == polys[poly_call.other]
       IN  /\ bounding_boxes_collide(A.x, A.y, A.n_pts, B.x, B.y, B.n_pts) = ~Separated(A, B)
           /\ poly_call.returned = polygons_collide(A.x, A.y, A.n_pts, B.x, B.y, B.n_pts)

\* the boxes of two overlapping polygons share one vertical line only
C19_Witness ==
    /\ OverlapAsked
    /\ LET A == polys[poly_call.self]
           B == polys[poly_call.other]
       IN  /\ c_max(A.x, A.n_pts) = c_min(B.x, B.n_pts)
           /\ ~Separated(A, B)
    /\ poly_call.returned

\* the squared distance of vertex i of poly from (x, y)
Distance2(poly, i, x, y) ==
    (poly.x[i] - x) * (poly.x[i] - x) + (poly.y[i] - y) * (poly.y[i] - y)

\* C20: collides_with_circle is true iff some vertex is strictly inside the
\* disk; a vertex on the circle, or an edge crossing the disk between
\* vertices outside it, is not a collision.
C20_VertexStrictlyInside ==
    poly_call.op = "collides_with_circle"
    => LET poly == polys[poly_call.self]
           c == poly_call.circle
       IN  poly_call.returned
            = \E i \in 1..poly.n_pts : Distance2(poly, i, c[1], c[2]) < c[3] * c[3]

\* an edge runs through the centre of the circle, its two ends on the
\* circle: no collision
C20_Witness ==
    /\ poly_call.op = "collides_with_circle"
    /\ LET poly == polys[poly_call.self]
           c == poly_call.circle
       IN  /\ poly.n_pts >= 2
           /\ \A i \in 1..poly.n_pts : Distance2(poly, i, c[1], c[2]) = c[3] * c[3]
           /\ \E i \in 1..(poly.n_pts - 1) :
                /\ poly.x[i] + poly.x[i + 1] = 2 * c[1]
                /\ poly.y[i] + poly.y[i + 1] = 2 * c[2]
    /\ ~poly_call.returned

\* (Q - P) x (R - P): positive when R is left of the line from P to Q
Orient(P, Q, R) == (Q[1] - P[1]) * (R[2] - P[2]) - (Q[2] - P[2]) * (R[1] - P[1])

Vertex(poly, i) == <<At(poly.x, i), At(poly.y, i)>>

\* the segments share a point of each: the ends of either are not strictly
\* on one side of the other's line
Meet(A1, A2, B1, B2) ==
    /\ Orient(A1, A2, B1) * Orient(A1, A2, B2) <= 0
    /\ Orient(B1, B2, A1) * Orient(B1, B2, A2) <= 0

\* C27: _segments_intersect is true iff the segments are not parallel and
\* the crossing of their lines is on both closed segments; touching at an end
\* counts, parallel segments (collinear or identical too) never intersect.
C27_SegmentsIntersect ==
    OverlapAsked
    => LET A == polys[poly_call.self]
           B == polys[poly_call.other]
       IN  \A i \in 0..(A.n_pts - 2), j \in 0..(B.n_pts - 2) :
            LET A1 == Vertex(A, i)
                A2 == Vertex(A, i + 1)
                B1 == Vertex(B, j)
                B2 == Vertex(B, j + 1)
                parallel == (A2[1] - A1[1]) * (B2[2] - B1[2])
                                = (A2[2] - A1[2]) * (B2[1] - B1[1])
            IN  segments_intersect(A1, A2, B1, B2) = (~parallel /\ Meet(A1, A2, B1, B2))

\* a polygon tested against itself: its first edge and itself are identical
\* and do not intersect, its first two edges touch at an end and do
C27_Witness ==
    /\ OverlapAsked
    /\ poly_call.self = poly_call.other
    /\ LET A == polys[poly_call.self]
       IN  /\ A.n_pts >= 3
           /\ Vertex(A, 0) # Vertex(A, 1)
           /\ ~segments_intersect(Vertex(A, 0), Vertex(A, 1), Vertex(A, 0), Vertex(A, 1))
           /\ segments_intersect(Vertex(A, 0), Vertex(A, 1), Vertex(A, 1), Vertex(A, 2))
           /\ Orient(Vertex(A, 0), Vertex(A, 1), Vertex(A, 2)) # 0

\* every vertex of A is strictly on the same side of every edge of the closed
\* polygon B: A is inside B and no edge of A reaches an edge of B
Inside(A, B) ==
    /\ A.n_pts >= 1
    /\ B.n_pts >= 4
    /\ Vertex(B, 0) = Vertex(B, B.n_pts - 1)
    /\ \/ \A i \in 0..(A.n_pts - 1), j \in 0..(B.n_pts - 2) :
            Orient(Vertex(B, j), Vertex(B, j + 1), Vertex(A, i)) > 0
       \/ \A i \in 0..(A.n_pts - 1), j \in 0..(B.n_pts - 2) :
            Orient(Vertex(B, j), Vertex(B, j + 1), Vertex(A, i)) < 0

\* C21: a polygon strictly inside another does not collide with it, either
\* way round, and a phi arm placed strictly inside the petal envelope is
\* case I.
C21_ContainmentNoCollision ==
    /\ OverlapAsked
        => LET A == polys[poly_call.self]
               B == polys[poly_call.other]
           IN  (Inside(A, B) \/ Inside(B, A)) => ~poly_call.returned
    /\ (poly_call.op = "spatial_collision_with_fixed"
            /\ Inside(poly_call.poly1, poly_call.poly2))
        => poly_call.returned = case_I

\* a placed closed arm is inside the envelope, their boxes meet, and the
\* call returned case I
C21_Witness ==
    /\ poly_call.op = "spatial_collision_with_fixed"
    /\ poly_call.poly1.n_pts >= 4
    /\ Inside(poly_call.poly1, poly_call.poly2)
    /\ ~Separated(poly_call.poly1, poly_call.poly2)
    /\ poly_call.returned = case_I

\* C22: Q.place_as_phi_arm(theta, phi, x0, y0, R1) has the vertices of
\* Q.rotated(phi).translated(R1, 0).rotated(theta).translated(x0, y0).
C22_PlacementComposition ==
    poly_call.op = "test" => poly_call.a = poly_call.b

\* a triangle placed with theta = 90, away from where it was
C22_Witness ==
    /\ poly_call.op = "test"
    /\ poly_call.placement[1] = 90
    /\ poly_call.b.n_pts = 4
    /\ poly_call.a = poly_call.b
    /\ poly_call.b # poly_call.before[poly_call.self]
    /\ Orient(Vertex(poly_call.b, 0), Vertex(poly_call.b, 1), Vertex(poly_call.b, 2)) # 0


-----------------------------------------------------------------------------
(* The registry: add_positioners and refresh_calibrations, between writes of
   the positioners' calibration state *)

\* the posmodels lists handed to add_positioners: positioners 1..k
Batches == {[i \in 1..k |-> i] : k \in {2, MaxNeighbors + 1, MaxPositioners}}

\* the positioners whose calibration state is written between the calls
Recalibrated == {1}

\* the positioners start on one spot, or in a row where each one's Ee
\* overlaps those of the positioners next to it; positioner 1 may start
\* classified as retracted
RegistryInit ==
    /\ SweepIdle
    /\ ClassifyIdle
    /\ DriverIdle
    /\ PolyIdle
    /\ \E row \in BOOLEAN, classified_retracted \in BOOLEAN :
        posmodel_state =
            [p \in 1..MaxPositioners |->
                [OFFSET_X |-> IF row THEN 3 * p ELSE 0,
                 CLASSIFIED_AS_RETRACTED |-> p \in Recalibrated /\ classified_retracted]]
    /\ registry = EmptyRegistry
    /\ registry_call = NoRegistryCall

\* the run goes on: a call that raised is fatal, nothing is called after it
RegistryOpen ==
    /\ registry_call.n < MaxRegistryCalls
    /\ ~(registry_call.op # "none" /\ registry_call.raised)

\* posmodel.state.store: a calibration value of a positioner is changed
StateWrite ==
    /\ RegistryOpen
    /\ \E p \in Recalibrated, x \in {-20, 0, 3}, classified_retracted \in BOOLEAN :
        /\ posmodel_state' =
               [posmodel_state EXCEPT ![p] = [OFFSET_X |-> x,
                                              CLASSIFIED_AS_RETRACTED |-> classified_retracted]]
        /\ posmodel_state' # posmodel_state
    /\ UNCHANGED <<sweepVars, extendVars, collider, classifyVars, driverVars, polyVars,
                   registry, registry_call>>

AddPositioners ==
    /\ RegistryOpen
    /\ \E posmodels \in Batches :
        \E outcome \in add_positioners(registry, posmodels, posmodel_state) :
            /\ registry' = outcome.self
            /\ registry_call' = [op |-> "add_positioners", n |-> registry_call.n + 1,
                                 posmodels |-> posmodels, state |-> posmodel_state,
                                 before |-> registry, raised |-> outcome.raised,
                                 error |-> outcome.error, posid |-> outcome.posid]
    /\ UNCHANGED <<sweepVars, extendVars, collider, classifyVars, driverVars, polyVars,
                   posmodel_state>>

RefreshCalibrations ==
    /\ RegistryOpen
    /\ LET outcome == refresh_calibrations(registry, posmodel_state)
       IN  /\ registry' = outcome.self
           /\ registry_call' = [op |-> "refresh_calibrations", n |-> registry_call.n + 1,
                                posmodels |-> <<>>, state |-> posmodel_state,
                                before |-> registry, raised |-> outcome.raised,
                                error |-> outcome.error, posid |-> outcome.posid]
    /\ UNCHANGED <<sweepVars, extendVars, collider, classifyVars, driverVars, polyVars,
                   posmodel_state>>

RegistryNext == StateWrite \/ AddPositioners \/ RefreshCalibrations

RegistrySpec == RegistryInit /\ [][RegistryNext]_vars

\* a registry call was made and returned normally
RegistryReturned == registry_call.op # "none" /\ ~registry_call.raised


-----------------------------------------------------------------------------
(* Properties of the registry *)

\* C28: after a refresh_calibrations or add_positioners call that returned,
\* the positioners treated as classified as retracted are the registered
\* positioners whose CLASSIFIED_AS_RETRACTED value was true at that call: a
\* positioner whose flag has been cleared is no longer in the set.
C28_RetractedFollowsState ==
    RegistryReturned =>
        registry.classified_as_retracted
            = {p \in registry.posids : registry_call.state[p].CLASSIFIED_AS_RETRACTED}


\* the Ee envelopes of two positioners, squares with corners 2 from the centre
\* along the axes and centred at x and neighbor_x on the x axis, share a point
EeOverlap(x, neighbor_x) == Abs(x - neighbor_x) <= 4

\* C24: after an add_positioners call that returned, n is a neighbour of p
\* exactly when Ee at p's current (x0, y0) overlaps Ee at n's current
\* (x0, y0); no positioner is its own neighbour, and the relation is
\* symmetric.
C24_NeighborsAreOverlaps ==
    (registry_call.op = "add_positioners" /\ ~registry_call.raised) =>
        \A p \in registry.posids :
            /\ p \notin registry.pos_neighbors[p]
            /\ \A n \in registry.posids \ {p} :
                /\ n \in registry.pos_neighbors[p]
                    <=> EeOverlap(registry_call.state[p].OFFSET_X,
                                  registry_call.state[n].OFFSET_X)
                /\ n \in registry.pos_neighbors[p] <=> p \in registry.pos_neighbors[n]


\* the registered positioners that hold more neighbours than are accepted
Overfull == {p \in registry.posids :
                Cardinality(registry.pos_neighbors[p]) > MaxNeighbors}

\* C23: in every registry state reached through add_positioners calls no
\* registered positioner holds more than 6 neighbours, and a call that would
\* give a positioner more than 6 raises an error that names that positioner.
C23_NeighborBound ==
    /\ Overfull = {}
    /\ registry_call.op = "add_positioners" =>
           LET after == add_positioners(registry_call.before, registry_call.posmodels,
                                        registry_call.state)
           IN  (\E outcome \in after : outcome.raised)
                   => /\ registry_call.raised
                      /\ registry_call.error = "AssertionError"
                      /\ Cardinality(registry.pos_neighbors[registry_call.posid])
                             > MaxNeighbors


\* C25: after an add_positioners or refresh_calibrations call that returned
\* normally, keepouts_T, keepouts_P, keepouts_arcP, Eo_polys, Ei_polys,
\* Ee_polys and the calibration maps (R1, R2, x0, y0, t0, p0: the keys of x0)
\* each have an entry for exactly the registered posids.
C25_MapsCoverRegistered ==
    RegistryReturned =>
        /\ registry.keepouts_T = registry.posids
        /\ registry.keepouts_P = registry.posids
        /\ registry.keepouts_arcP = registry.posids
        /\ DOMAIN registry.Eo_polys = registry.posids
        /\ DOMAIN registry.Ei_polys = registry.posids
        /\ DOMAIN registry.Ee_polys = registry.posids
        /\ DOMAIN registry.x0 = registry.posids

\* a second add_positioners call registered further positioners and
\* returned, and every map has grown with the registry
C25_Witness ==
    /\ registry_call.op = "add_positioners"
    /\ ~registry_call.raised
    /\ registry_call.before.posids # {}
    /\ registry_call.before.posids # registry.posids
    /\ registry.keepouts_T = registry.posids
    /\ registry.keepouts_arcP = registry.posids
    /\ DOMAIN registry.Eo_polys = registry.posids
    /\ DOMAIN registry.x0 = registry.posids

====
